---------------------------- MODULE Spec2Model ----------------------------
(***************************************************************************)
(* Model of the dependency-mapping core of the DependentChoice control:    *)
(* ConfigurationValidator (strict validation of the configuration text)    *)
(* and DependencyMappingService (permissive load and lookup), and of the    *)
(* DependentChoiceControl component that reconciles and filters the        *)
(* dependent selection with them.                                          *)
(*                                                                         *)
(* A configuration text is a sequence of lexical tokens; JSON.parse is a   *)
(* recursive-descent parser over the tokens and JSON.stringify writes      *)
(* tokens back, so that parsing and serialisation are real conversions.    *)
(* JavaScript values are records tagged by the field k.                    *)
(***************************************************************************)
EXTENDS Integers, Sequences, FiniteSets, TLC

VARIABLES
    configJson,     \* the configurationParameters input supplied by the host
    pc,             \* which operation ran last
    parsed,         \* validate: the outcome of parseJson for configJson
    result,         \* validate: the outcome of the last validate call
    first,          \* the outcome of validate on the original text (round trip)
    configuration,  \* DependencyMappingService.configuration
    previous,       \* the input and configuration before the last initialize call
    lookup,         \* the last getDependentValues call and its outcome
    allowed,        \* the last isAllowed call and its outcome
    props,          \* the control's props: isMultiSelect, parentChoiceValue, currentValue
    selectedKey,    \* the control's state for single select
    selectedKeys,   \* the control's state for multi select
    view,           \* the last render: filteredOptions and what it used
    changes,        \* the arguments of the onChange calls so far
    selectedValue,  \* DependentChoice.selectedValue, set by onChange
    syncDue,        \* props.currentValue changed since the last commit
    updates,        \* number of events (updateView calls, user selections) after the first render
    fired,          \* onChange calls of the effects since the last change of an input
    event,          \* what caused the last render: mount, parent, value, output, config, select
    configErrors,   \* DependentChoiceApp's state configErrors
    showErrorDialog,\* DependentChoiceApp's state showErrorDialog
    notified,       \* number of notifyOutputChanged calls
    validationDue,  \* props.configurationParameters changed since DependentChoiceApp validated it
    cache,          \* MetadataService.cache: cache key -> value
    cacheExpiry,    \* MetadataService.cacheExpiry: cache key -> time in ms
    now,            \* Date.now()
    pending,        \* the requests awaiting webAPI.retrieveMultipleRecords
    outcome,        \* the last request: its cache key and where its answer came from
    succeededAt     \* cache key -> time of the last successful retrieval since the last clear

validatorVars == <<parsed, result, first>>
resolverVars == <<configuration, previous, lookup, allowed>>
controlVars ==
    <<props, selectedKey, selectedKeys, view, changes, selectedValue, syncDue,
      updates, fired, event, configErrors, showErrorDialog, notified,
      validationDue>>
metadataVars == <<cache, cacheExpiry, now, pending, outcome, succeededAt>>
vars == <<configJson, pc, validatorVars, resolverVars, controlVars, metadataVars>>

----------------------------------------------------------------------------
(* Bounds of the model. *)

\* total size of the mappings array of a generated text: one per element
\* plus one per entry of its dependentValues array
MaxSize == 3
\* the same size for a text loaded into DependencyMappingService
MaxLoadSize == 2
\* events after the first render of the control: updateView calls and
\* selections by the user
MaxUpdates == 2
\* longest whitespace-only text
MaxWs == 2

----------------------------------------------------------------------------
(* JavaScript values. *)

JsUndefined == [k |-> "undefined"]
JsNull == [k |-> "null"]
JsTrue == [k |-> "boolean", b |-> TRUE]
JsFalse == [k |-> "boolean", b |-> FALSE]
JsBool(b) == IF b THEN JsTrue ELSE JsFalse
JsNum(n) == [k |-> "number", fin |-> TRUE, n |-> n]
\* the number Infinity: typeof "number", not NaN, not finite
JsInfinity == [k |-> "number", fin |-> FALSE, n |-> 1]
JsStr(s) == [k |-> "string", s |-> s]
JsArr(items) == [k |-> "array", items |-> items]
\* an object is the sequence of its own properties in insertion order
JsObj(members) == [k |-> "object", members |-> members]
Member(key, val) == [key |-> key, val |-> val]

\* typeof v
TypeOf(v) ==
    CASE v.k = "undefined" -> "undefined"
      [] v.k = "boolean" -> "boolean"
      [] v.k = "number" -> "number"
      [] v.k = "string" -> "string"
      [] OTHER -> "object"

\* Array.isArray(v)
IsArray(v) == v.k = "array"

\* key in obj, for an object made by JSON.parse (no inherited data property
\* has one of the names used here)
HasProp(obj, key) == \E i \in 1..Len(obj.members) : obj.members[i].key = key

\* obj[key] for a value that is neither null nor undefined; a primitive or
\* an array has none of the property names used here
GetProp(obj, key) ==
    IF obj.k = "object" /\ HasProp(obj, key)
    THEN obj.members[CHOOSE i \in 1..Len(obj.members) : obj.members[i].key = key].val
    ELSE JsUndefined

\* obj[key] = val on an object: a new key is appended, an existing key keeps
\* its position and takes the new value
SetProp(obj, key, val) ==
    IF HasProp(obj, key)
    THEN JsObj([i \in 1..Len(obj.members) |->
                   IF obj.members[i].key = key THEN Member(key, val)
                   ELSE obj.members[i]])
    ELSE JsObj(Append(obj.members, Member(key, val)))

----------------------------------------------------------------------------
(* Lexical tokens of a configuration text. *)

\* the numbers that have a literal in the texts of the model
Numbers == {-1, 1, 2, 3}
\* further numbers with a literal: values of the dependent choice
ChoiceNumbers == {10, 11, 20, 100, 200, 201}
\* a literal too large for a double: JSON.parse reads it as Infinity
HugeLiteral == "1e999"
NumLiteral(n) == ToString(n)
NumLiterals == {NumLiteral(n) : n \in Numbers \cup ChoiceNumbers}
\* the number a literal denotes
NumberOf ==
    [t \in NumLiterals |-> CHOOSE n \in Numbers \cup ChoiceNumbers : NumLiteral(n) = t]

\* the strings that have a literal in the texts of the model
Strings == {"mappings", "parentValue", "dependentValues", "toString", "other", "x"}
Quote(s) == "\"" \o s \o "\""
StrLiterals == {Quote(s) : s \in Strings}
\* the string a literal denotes, and the literal of a string
StringOf == [t \in StrLiterals |-> CHOOSE s \in Strings : Quote(s) = t]
LiteralOf == [s \in Strings |-> Quote(s)]

\* white space that JSON.parse skips
JsonWs == {" ", "\n"}
\* white space that String.prototype.trim strips: JSON white space and
\* more, such as the no-break space
NoBreakSpace == "NBSP"
TrimWs == JsonWs \cup {NoBreakSpace}

\* a character that starts no JSON token
Garbage == "@"

----------------------------------------------------------------------------
(* JSON.parse: a recursive-descent parser over the tokens. *)

ParseFail == [ok |-> FALSE, val |-> JsNull, pos |-> 0]
ParseOk(val, pos) == [ok |-> TRUE, val |-> val, pos |-> pos]

RECURSIVE SkipWs(_, _)
SkipWs(toks, pos) ==
    IF pos <= Len(toks) /\ toks[pos] \in JsonWs THEN SkipWs(toks, pos + 1) ELSE pos

\* the token at pos, or the empty string past the end
TokenAt(toks, pos) == IF pos <= Len(toks) THEN toks[pos] ELSE ""

RECURSIVE ParseValue(_, _), ParseElements(_, _, _), ParseMembers(_, _, _)

\* a JSON value starting at pos (after white space)
ParseValue(toks, pos) ==
    LET p == SkipWs(toks, pos)
        t == TokenAt(toks, p)
    IN  CASE t = "null" -> ParseOk(JsNull, p + 1)
          [] t = "true" -> ParseOk(JsTrue, p + 1)
          [] t = HugeLiteral -> ParseOk(JsInfinity, p + 1)
          [] t \in NumLiterals ->
                ParseOk(JsNum(NumberOf[t]), p + 1)
          [] t \in StrLiterals ->
                ParseOk(JsStr(StringOf[t]), p + 1)
          [] t = "[" ->
                IF TokenAt(toks, SkipWs(toks, p + 1)) = "]"
                THEN ParseOk(JsArr(<<>>), SkipWs(toks, p + 1) + 1)
                ELSE ParseElements(toks, p + 1, <<>>)
          [] t = "{" ->
                IF TokenAt(toks, SkipWs(toks, p + 1)) = "}"
                THEN ParseOk(JsObj(<<>>), SkipWs(toks, p + 1) + 1)
                ELSE ParseMembers(toks, p + 1, JsObj(<<>>))
          [] OTHER -> ParseFail

\* the elements of a non-empty array, up to and including the closing bracket
ParseElements(toks, pos, acc) ==
    LET e == ParseValue(toks, pos)
        q == SkipWs(toks, e.pos)
        t == TokenAt(toks, q)
    IN  IF ~e.ok THEN ParseFail
        ELSE CASE t = "," -> ParseElements(toks, q + 1, Append(acc, e.val))
               [] t = "]" -> ParseOk(JsArr(Append(acc, e.val)), q + 1)
               [] OTHER -> ParseFail

\* the members of a non-empty object, up to and including the closing brace;
\* a repeated key keeps the last value
ParseMembers(toks, pos, acc) ==
    LET p == SkipWs(toks, pos)
        key == TokenAt(toks, p)
        c == SkipWs(toks, p + 1)
        v == ParseValue(toks, c + 1)
        q == SkipWs(toks, v.pos)
        t == TokenAt(toks, q)
        obj == SetProp(acc, StringOf[key], v.val)
    IN  IF key \notin StrLiterals \/ TokenAt(toks, c) # ":" THEN ParseFail
        ELSE IF ~v.ok THEN ParseFail
        ELSE CASE t = "," -> ParseMembers(toks, q + 1, obj)
               [] t = "}" -> ParseOk(obj, q + 1)
               [] OTHER -> ParseFail

\* JSON.parse(text): the value, or threw (a SyntaxError)
JsonParse(toks) ==
    LET r == ParseValue(toks, 1)
    IN  IF r.ok /\ SkipWs(toks, r.pos) > Len(toks)
        THEN [threw |-> FALSE, val |-> r.val]
        ELSE [threw |-> TRUE, val |-> JsUndefined]

----------------------------------------------------------------------------
(* JSON.stringify and String(). *)

RECURSIVE JoinTokens(_, _)
\* the token sequences of parts, separated by the token sep
JoinTokens(parts, sep) ==
    IF parts = <<>> THEN <<>>
    ELSE IF Len(parts) = 1 THEN parts[1]
    ELSE parts[1] \o <<sep>> \o JoinTokens(Tail(parts), sep)

RECURSIVE JsonStringify(_)
\* JSON.stringify(v) for a value that is not undefined: no white space, a
\* number that is not finite is written as null
JsonStringify(v) ==
    CASE v.k = "null" -> <<"null">>
      [] v.k = "boolean" -> IF v.b THEN <<"true">> ELSE <<"false">>
      [] v.k = "number" -> IF v.fin THEN <<NumLiteral(v.n)>> ELSE <<"null">>
      [] v.k = "string" -> <<LiteralOf[v.s]>>
      [] v.k = "array" ->
            <<"[">> \o JoinTokens([i \in 1..Len(v.items) |->
                                      JsonStringify(v.items[i])], ",") \o <<"]">>
      [] v.k = "object" ->
            <<"{">> \o JoinTokens([i \in 1..Len(v.members) |->
                                      <<LiteralOf[v.members[i].key], ":">>
                                          \o JsonStringify(v.members[i].val)], ",")
                \o <<"}">>

\* the text of a number in a message
NumberToString(v) == IF v.fin THEN ToString(v.n) ELSE "Infinity"

RECURSIVE JoinStrings(_, _)
\* Array.prototype.join on strings
JoinStrings(parts, sep) ==
    IF parts = <<>> THEN ""
    ELSE IF Len(parts) = 1 THEN parts[1]
    ELSE parts[1] \o sep \o JoinStrings(Tail(parts), sep)

RECURSIVE JsString(_)
\* String(v): the string, or threw (a TypeError).  An object made by
\* JSON.parse with an own property toString has no callable toString, and
\* Object.prototype.valueOf returns the object itself, so the conversion to
\* a primitive fails.
JsString(v) ==
    CASE v.k = "undefined" -> [threw |-> FALSE, s |-> "undefined"]
      [] v.k = "null" -> [threw |-> FALSE, s |-> "null"]
      [] v.k = "boolean" -> [threw |-> FALSE, s |-> IF v.b THEN "true" ELSE "false"]
      [] v.k = "number" -> [threw |-> FALSE, s |-> NumberToString(v)]
      [] v.k = "string" -> [threw |-> FALSE, s |-> v.s]
      [] v.k = "array" ->
            LET parts == [i \in 1..Len(v.items) |->
                             IF v.items[i].k \in {"null", "undefined"}
                             THEN [threw |-> FALSE, s |-> ""]
                             ELSE JsString(v.items[i])]
            IN  IF \E i \in 1..Len(parts) : parts[i].threw
                THEN [threw |-> TRUE, s |-> ""]
                ELSE [threw |-> FALSE,
                      s |-> JoinStrings([i \in 1..Len(parts) |-> parts[i].s], ",")]
      [] v.k = "object" ->
            IF HasProp(v, "toString") THEN [threw |-> TRUE, s |-> ""]
            ELSE [threw |-> FALSE, s |-> "[object Object]"]

----------------------------------------------------------------------------
(* ConfigurationValidator. *)

\* the configJson argument: null, undefined or a string (its tokens)
NullInput == [k |-> "null"]
UndefinedInput == [k |-> "undefined"]
Text(toks) == [k |-> "string", toks |-> toks]

\* an error message: the template of the source and the values it
\* interpolates (index and j are -1 and value is empty where the template
\* has no such placeholder)
Error(msg, index, j, value) == [msg |-> msg, index |-> index, j |-> j, value |-> value]

\* an IValidationResult; configuration is JsUndefined when the property is absent
ValidationResult(isValid, errors, cfg) ==
    [isValid |-> isValid, errors |-> errors, configuration |-> cfg]

\* an IDependencyConfiguration and an IDependencyMapping
Configuration(mappings) == JsObj(<<Member("mappings", JsArr(mappings))>>)
Mapping(parentValue, dependentValues) ==
    JsObj(<<Member("parentValue", parentValue),
            Member("dependentValues", JsArr(dependentValues))>>)

\* what a call did: returned value, or threw an exception
Returned(value) == [threw |-> FALSE, value |-> value]
Threw == [threw |-> TRUE, value |-> JsUndefined]

\* configJson.trim() === ""
TrimIsEmpty(toks) == \A i \in 1..Len(toks) : toks[i] \in TrimWs

\* a faulty validateInput: compares with "" without trimming
validateInput_NoTrim(input) ==
    IF input.k = "null" \/ input.k = "undefined"
    THEN ValidationResult(TRUE, <<>>, Configuration(<<>>))
    ELSE IF input.toks = <<>>
    THEN ValidationResult(TRUE, <<>>, Configuration(<<>>))
    ELSE JsNull

\* the result for null, undefined or blank input, or JsNull to go on
validateInput(input) ==
    IF input.k = "null" \/ input.k = "undefined"
    THEN ValidationResult(TRUE, <<>>, Configuration(<<>>))
    ELSE IF TrimIsEmpty(input.toks)
    THEN ValidationResult(TRUE, <<>>, Configuration(<<>>))
    ELSE JsNull

\* the message of the engine's SyntaxError is left abstract
parseJson(toks) ==
    LET r == JsonParse(toks)
    IN  IF r.threw
        THEN [parsed |-> JsNull,
              errors |-> <<Error("Invalid JSON format: ${error.message}", -1, -1, "")>>]
        ELSE [parsed |-> r.val, errors |-> <<>>]

\* a faulty validateRootStructure: no Array.isArray test on the root
validateRootStructure_NoArrayCheck(p) ==
    IF TypeOf(p) # "object" \/ p = JsNull
    THEN [config |-> JsObj(<<>>),
          errors |-> <<Error("Configuration must be a JSON object, not an array or primitive value",
                             -1, -1, "")>>]
    ELSE IF p.k = "array" \/ ~HasProp(p, "mappings")
    THEN [config |-> JsObj(<<>>),
          errors |-> <<Error("Configuration must have a \"mappings\" property", -1, -1, "")>>]
    ELSE IF ~IsArray(GetProp(p, "mappings"))
    THEN [config |-> JsObj(<<>>),
          errors |-> <<Error("\"mappings\" must be an array", -1, -1, "")>>]
    ELSE [config |-> p, errors |-> <<>>]

validateRootStructure(p) ==
    IF TypeOf(p) # "object" \/ p = JsNull \/ IsArray(p)
    THEN [config |-> JsObj(<<>>),
          errors |-> <<Error("Configuration must be a JSON object, not an array or primitive value",
                             -1, -1, "")>>]
    ELSE IF ~HasProp(p, "mappings")
    THEN [config |-> JsObj(<<>>),
          errors |-> <<Error("Configuration must have a \"mappings\" property", -1, -1, "")>>]
    ELSE IF ~IsArray(GetProp(p, "mappings"))
    THEN [config |-> JsObj(<<>>),
          errors |-> <<Error("\"mappings\" must be an array", -1, -1, "")>>]
    ELSE [config |-> p, errors |-> <<>>]

\* values.filter((val, idx) => values.indexOf(val) !== idx)
findDuplicates(values) ==
    SelectSeq([i \in 1..Len(values) |->
                  [val |-> values[i],
                   dup |-> \E h \in 1..(i - 1) : values[h] = values[i]]],
              LAMBDA e : e.dup)

checkDuplicateDependentValues(dependentValues, index) ==
    LET uniqueValues == {dependentValues[i] : i \in 1..Len(dependentValues)}
        duplicates == findDuplicates(dependentValues)
    IN  IF Cardinality(uniqueValues) # Len(dependentValues)
        THEN <<Error("Mapping at index ${index} has duplicate dependentValues: [${duplicates.join(\", \")}]",
                     index, -1,
                     JoinStrings([i \in 1..Len(duplicates) |->
                                     NumberToString(duplicates[i].val)], ", "))>>
        ELSE <<>>

RECURSIVE validateDependentValuesElementsFrom(_, _, _, _, _)
\* the loop over j (1-based here, 0-based in the messages); String(element)
\* may throw, and then the call throws
validateDependentValuesElementsFrom(dependentValues, index, j, errors, validValues) ==
    IF j > Len(dependentValues)
    THEN [threw |-> FALSE, errors |-> errors, validValues |-> validValues]
    ELSE LET element == dependentValues[j]
         IN  IF TypeOf(element) # "number"
             THEN IF JsString(element).threw
                  THEN [threw |-> TRUE, errors |-> <<>>, validValues |-> <<>>]
                  ELSE validateDependentValuesElementsFrom(dependentValues, index, j + 1,
                           Append(errors,
                               Error("Mapping at index ${index}, dependentValues[${j}]: \"${String(element)}\" is not a number",
                                     index, j - 1, JsString(element).s)),
                           validValues)
             ELSE validateDependentValuesElementsFrom(dependentValues, index, j + 1,
                      errors, Append(validValues, element))

validateDependentValuesElements(dependentValues, index) ==
    validateDependentValuesElementsFrom(dependentValues, index, 1, <<>>, <<>>)

\* dependentValues is JsUndefined when the field of the result is not set
validateDependentValues(mappingObj, index) ==
    IF ~HasProp(mappingObj, "dependentValues")
    THEN [threw |-> FALSE, dependentValues |-> JsUndefined,
          errors |-> <<Error("Mapping at index ${index} is missing \"dependentValues\" property",
                             index, -1, "")>>]
    ELSE IF ~IsArray(GetProp(mappingObj, "dependentValues"))
    THEN [threw |-> FALSE, dependentValues |-> JsUndefined,
          errors |-> <<Error("Mapping at index ${index} has invalid \"dependentValues\": must be an array",
                             index, -1, "")>>]
    ELSE LET el == validateDependentValuesElements(
                       GetProp(mappingObj, "dependentValues").items, index)
         IN  IF el.threw
             THEN [threw |-> TRUE, dependentValues |-> JsUndefined, errors |-> <<>>]
             ELSE IF Len(el.errors) > 0
             THEN [threw |-> FALSE, dependentValues |-> JsUndefined, errors |-> el.errors]
             ELSE [threw |-> FALSE, dependentValues |-> JsArr(el.validValues),
                   errors |-> checkDuplicateDependentValues(el.validValues, index)]

\* parentValue is JsUndefined when the field of the result is not set;
\* parentValues is the set after the call
validateParentValue(mappingObj, index, parentValues) ==
    IF ~HasProp(mappingObj, "parentValue")
    THEN [parentValue |-> JsUndefined, parentValues |-> parentValues,
          errors |-> <<Error("Mapping at index ${index} is missing \"parentValue\" property",
                             index, -1, "")>>]
    ELSE IF TypeOf(GetProp(mappingObj, "parentValue")) # "number"
    THEN [parentValue |-> JsUndefined, parentValues |-> parentValues,
          errors |-> <<Error("Mapping at index ${index} has invalid \"parentValue\": must be a number",
                             index, -1, "")>>]
    ELSE IF GetProp(mappingObj, "parentValue") \in parentValues
    THEN [parentValue |-> JsUndefined, parentValues |-> parentValues,
          errors |-> <<Error("Duplicate parentValue ${parentValue} found at index ${index}",
                             index, -1,
                             NumberToString(GetProp(mappingObj, "parentValue")))>>]
    ELSE [parentValue |-> GetProp(mappingObj, "parentValue"),
          parentValues |-> parentValues \cup {GetProp(mappingObj, "parentValue")},
          errors |-> <<>>]

\* mapping is JsUndefined when the field of the result is not set
validateSingleMapping(mapping, index, parentValues) ==
    IF TypeOf(mapping) # "object" \/ mapping = JsNull \/ IsArray(mapping)
    THEN [threw |-> FALSE, mapping |-> JsUndefined, parentValues |-> parentValues,
          errors |-> <<Error("Mapping at index ${index} must be an object", index, -1, "")>>]
    ELSE LET pv == validateParentValue(mapping, index, parentValues)
             dv == validateDependentValues(mapping, index)
         IN  IF pv.parentValue = JsUndefined
             THEN [threw |-> FALSE, mapping |-> JsUndefined,
                   parentValues |-> pv.parentValues, errors |-> pv.errors]
             ELSE IF dv.threw
             THEN [threw |-> TRUE, mapping |-> JsUndefined,
                   parentValues |-> pv.parentValues, errors |-> <<>>]
             ELSE IF dv.dependentValues = JsUndefined
             THEN [threw |-> FALSE, mapping |-> JsUndefined,
                   parentValues |-> pv.parentValues, errors |-> pv.errors \o dv.errors]
             ELSE [threw |-> FALSE,
                   mapping |-> Mapping(pv.parentValue, dv.dependentValues.items),
                   parentValues |-> pv.parentValues, errors |-> pv.errors \o dv.errors]

RECURSIVE validateMappingsFrom(_, _, _, _, _)
\* the loop over i (0-based, as in the source)
validateMappingsFrom(mappings, i, errors, validatedMappings, parentValues) ==
    IF i >= Len(mappings)
    THEN [threw |-> FALSE, validatedMappings |-> validatedMappings, errors |-> errors]
    ELSE LET mappingResult == validateSingleMapping(mappings[i + 1], i, parentValues)
         IN  IF mappingResult.threw
             THEN [threw |-> TRUE, validatedMappings |-> <<>>, errors |-> <<>>]
             ELSE validateMappingsFrom(mappings, i + 1,
                      errors \o mappingResult.errors,
                      IF mappingResult.mapping # JsUndefined
                      THEN Append(validatedMappings, mappingResult.mapping)
                      ELSE validatedMappings,
                      mappingResult.parentValues)

\* a faulty validateMappings: the loop ends after the first element
validateMappings_FirstOnly(mappings) ==
    validateMappingsFrom(SubSeq(mappings, 1, IF Len(mappings) > 0 THEN 1 ELSE 0),
                         0, <<>>, <<>>, {})

validateMappings(mappings) == validateMappingsFrom(mappings, 0, <<>>, <<>>, {})

\* ConfigurationValidator.validate
validate(input) ==
    LET inputResult == validateInput(input)
        parseResult == parseJson(input.toks)
        structureResult == validateRootStructure(parseResult.parsed)
        mappingsResult == validateMappings(GetProp(structureResult.config, "mappings").items)
    IN  IF inputResult # JsNull THEN Returned(inputResult)
        ELSE IF Len(parseResult.errors) > 0
        THEN Returned(ValidationResult(FALSE, parseResult.errors, JsUndefined))
        ELSE IF Len(structureResult.errors) > 0
        THEN Returned(ValidationResult(FALSE, structureResult.errors, JsUndefined))
        ELSE IF mappingsResult.threw THEN Threw
        ELSE IF Len(mappingsResult.errors) > 0
        THEN Returned(ValidationResult(FALSE, mappingsResult.errors, JsUndefined))
        ELSE Returned(ValidationResult(TRUE, <<>>,
                                       Configuration(mappingsResult.validatedMappings)))

----------------------------------------------------------------------------
(* The configuration texts of the model. *)

\* the text of an object with the given members (token sequences; an empty
\* one stands for a member that is left out)
ObjectText(members) ==
    <<"{">> \o JoinTokens(SelectSeq(members, LAMBDA m : m # <<>>), ",") \o <<"}">>
MemberText(key, value) == <<Quote(key), ":">> \o value

\* the parentValue member of a mapping element: left out, a number, a
\* string, or a literal that reads as Infinity
ParentValueTexts ==
    {<<>>} \cup {MemberText("parentValue", <<t>>) :
                    t \in {NumLiteral(1), NumLiteral(2), Quote("x"), HugeLiteral}}

\* one entry of a dependentValues array: a number, a string, or an
\* object with an own property toString
DependentValueTexts ==
    {<<NumLiteral(1)>>, <<NumLiteral(2)>>, <<Quote("x")>>,
     ObjectText(<<MemberText("toString", <<NumLiteral(1)>>)>>)}

RECURSIVE DependentValueLists(_)
\* the comma-separated lists of n >= 1 entries
DependentValueLists(n) ==
    IF n = 1 THEN DependentValueTexts
    ELSE {d \o <<",">> \o r : d \in DependentValueTexts, r \in DependentValueLists(n - 1)}

\* the dependentValues member of a mapping element of size w: left out, not
\* an array, or an array of w - 1 entries
DependentValuesTexts(w) ==
    IF w = 1
    THEN {<<>>, MemberText("dependentValues", <<NumLiteral(1)>>),
          MemberText("dependentValues", <<"[", "]">>)}
    ELSE {MemberText("dependentValues", <<"[">> \o l \o <<"]">>) :
             l \in DependentValueLists(w - 1)}

\* the mapping elements of size w: objects, and for size 1 also null, a
\* number and an array
ElementTexts(w) ==
    {ObjectText(<<pv, dv>>) : pv \in ParentValueTexts, dv \in DependentValuesTexts(w)}
        \cup (IF w = 1 THEN {<<"null">>, <<NumLiteral(1)>>, <<"[", "]">>} ELSE {})

\* the mapping elements by size, computed once
ElementTextsBySize ==
    [w \in 1..(IF MaxSize > MaxLoadSize THEN MaxSize ELSE MaxLoadSize) |-> ElementTexts(w)]

MappingsText(elements) ==
    ObjectText(<<MemberText("mappings", <<"[">> \o elements \o <<"]">>)>>)

\* JSON texts whose root is not an object with an array "mappings"
RootTexts ==
    {<<"[", "]">>, <<NumLiteral(1)>>, <<Quote("x")>>, <<"null">>, <<"true">>,
     <<"[">> \o MappingsText(<<>>) \o <<"]">>,
     ObjectText(<<>>),
     ObjectText(<<MemberText("other", <<"[", "]">>)>>),
     ObjectText(<<MemberText("mappings", <<NumLiteral(1)>>)>>),
     ObjectText(<<MemberText("mappings", <<"null">>)>>),
     ObjectText(<<MemberText("mappings", <<Quote("x")>>)>>),
     ObjectText(<<MemberText("mappings", ObjectText(<<>>))>>)}

\* texts that are not JSON
UnparseableTexts ==
    {<<Garbage>>, <<"{">>, <<"{", Quote("mappings")>>, <<"[", NumLiteral(1), ",", "]">>,
     <<NumLiteral(1), NumLiteral(1)>>, <<"{", NumLiteral(1), ":", NumLiteral(1), "}">>,
     <<"{", Quote("mappings"), ":", "[", "]">>,
     <<NoBreakSpace>> \o MappingsText(<<>>),
     MappingsText(<<>>) \o <<Garbage>>,
     MappingsText(<<Garbage>>)}

RECURSIVE BlankTexts(_)
\* the texts of at most n white-space characters
BlankTexts(n) ==
    IF n = 0 THEN {<<>>}
    ELSE BlankTexts(n - 1) \cup
         {<<c>> \o t : c \in TrimWs, t \in {b \in BlankTexts(n - 1) : Len(b) = n - 1}}

RECURSIVE Spaced(_)
\* a text with white space around every token
Spaced(toks) ==
    IF toks = <<>> THEN <<" ">> ELSE <<" ", Head(toks), "\n">> \o Spaced(Tail(toks))

\* the texts of the scenarios of the specification
ScenarioTexts ==
    {MappingsText(ObjectText(<<MemberText("parentValue", <<NumLiteral(1)>>),
         MemberText("dependentValues",
                    <<"[", NumLiteral(1), ",", NumLiteral(1), ",", NumLiteral(2), "]">>)>>)),
     MappingsText(ObjectText(<<MemberText("parentValue", <<NumLiteral(1)>>),
         MemberText("dependentValues", <<"[", NumLiteral(2), ",", NumLiteral(3), "]">>)>>)),
     MappingsText(ObjectText(<<MemberText("parentValue", <<NumLiteral(-1)>>),
         MemberText("dependentValues", <<"[", NumLiteral(1), "]">>)>>)),
     MappingsText(
         ObjectText(<<MemberText("parentValue", <<NumLiteral(1)>>),
             MemberText("dependentValues", <<"[", NumLiteral(1), ",", NumLiteral(1), "]">>)>>)
         \o <<",">> \o
         ObjectText(<<MemberText("parentValue", <<NumLiteral(2)>>),
             MemberText("dependentValues",
                 <<"[">> \o ObjectText(<<MemberText("toString", <<NumLiteral(1)>>)>>)
                     \o <<"]">>)>>)),
     MappingsText(
         <<"null", ",">> \o
         ObjectText(<<MemberText("parentValue", <<NumLiteral(1)>>),
             MemberText("dependentValues", <<"[", NumLiteral(1), "]">>)>>)
         \o <<",">> \o
         ObjectText(<<MemberText("parentValue", <<NumLiteral(1)>>),
             MemberText("dependentValues", <<"[", NumLiteral(2), "]">>)>>))}

\* the texts the host starts from
BaseTexts ==
    BlankTexts(MaxWs) \cup UnparseableTexts \cup RootTexts
        \cup {Spaced(t) : t \in RootTexts \cup ScenarioTexts}
        \cup ScenarioTexts \cup {MappingsText(<<>>)}
BaseInputs == {NullInput, UndefinedInput} \cup {Text(t) : t \in BaseTexts}

RECURSIVE SumSizes(_)
SumSizes(items) ==
    IF items = <<>> THEN 0
    ELSE 1 + (IF IsArray(GetProp(Head(items), "dependentValues"))
              THEN Len(GetProp(Head(items), "dependentValues").items) ELSE 0)
           + SumSizes(Tail(items))

\* a text {"mappings":[...]} written without white space
IsMappingsText(toks) ==
    /\ Len(toks) >= 6
    /\ SubSeq(toks, 1, 4) = <<"{", Quote("mappings"), ":", "[">>
    /\ SubSeq(toks, Len(toks) - 1, Len(toks)) = <<"]", "}">>

\* the size of the array of a parsed {"mappings":[...]}: one per element
\* plus one per entry of the element's dependentValues array
MappingsSize(root) == SumSizes(GetProp(root, "mappings").items)

\* the text with one more element at the end of the array
AppendElement(toks, e) ==
    SubSeq(toks, 1, Len(toks) - 2)
        \o (IF toks[Len(toks) - 2] = "[" THEN <<>> ELSE <<",">>)
        \o e \o <<"]", "}">>

----------------------------------------------------------------------------
(* The validator as a state machine: the host holds a configuration text,  *)
(* the application validates it, and the accepted configuration is written *)
(* back as text and validated again.                                       *)

NoCall == Returned(JsUndefined)
NoLookup == [parentValue |-> JsUndefined, outcome |-> NoCall]
NoCheck == [parentValue |-> JsUndefined, dependentValue |-> JsUndefined, outcome |-> NoCall]
NoPrevious == [configJson |-> JsUndefined, configuration |-> JsNull]

NoProps == [isMultiSelect |-> FALSE, parentChoiceValue |-> JsUndefined,
            currentValue |-> JsNull, defaultValue |-> JsUndefined]
NoView == [outcome |-> NoCall, hasMappings |-> FALSE, allowedValues |-> <<>>]

\* before anything ran: no call made, no configuration loaded, the control
\* not yet rendered
InitRest ==
    /\ props = NoProps
    /\ selectedKey = ""
    /\ selectedKeys = <<>>
    /\ view = NoView
    /\ changes = <<>>
    /\ selectedValue = JsUndefined
    /\ syncDue = FALSE
    /\ updates = 0
    /\ fired = 0
    /\ event = "none"
    /\ configErrors = <<>>
    /\ showErrorDialog = FALSE
    /\ notified = 0
    /\ validationDue = FALSE
    /\ cache = <<>>
    /\ cacheExpiry = <<>>
    /\ now = 0
    /\ pending = {}
    /\ outcome = [from |-> "none"]
    /\ succeededAt = <<>>
    /\ pc = "start"
    /\ parsed = NoCall
    /\ result = NoCall
    /\ first = NoCall
    /\ configuration = JsNull
    /\ previous = NoPrevious
    /\ lookup = NoLookup
    /\ allowed = NoCheck

Init ==
    /\ configJson \in BaseInputs
    /\ InitRest

\* the host's configurationParameters property: any text; here the
\* customizer adds one more element to the mappings array, within maxSize
HostAppends(maxSize) ==
    /\ pc = "start"
    /\ configJson.k = "string"
    /\ IsMappingsText(configJson.toks)
    /\ LET root == JsonParse(configJson.toks)
       IN  /\ ~root.threw
           /\ \E w \in 1..(maxSize - MappingsSize(root.val)) :
                  \E e \in ElementTextsBySize[w] :
                      configJson' = Text(AppendElement(configJson.toks, e))
    /\ UNCHANGED <<metadataVars, pc, validatorVars, resolverVars, controlVars>>

HostAppendsMapping == HostAppends(MaxSize)

\* DependentChoiceApp's effect: ConfigurationValidator.validate(configurationParameters)
Validate ==
    /\ pc = "start"
    /\ pc' = "validated"
    /\ parsed' = IF validateInput(configJson) # JsNull THEN NoCall
                 ELSE LET r == JsonParse(configJson.toks)
                      IN  IF r.threw THEN Threw ELSE Returned(r.val)
    /\ result' = validate(configJson)
    /\ UNCHANGED <<metadataVars, configJson, first, resolverVars, controlVars>>

\* the round trip: validate(JSON.stringify(result.configuration))
Revalidate ==
    /\ pc = "validated"
    /\ ~result.threw /\ result.value.isValid
    /\ pc' = "revalidated"
    /\ first' = result
    /\ configJson' = Text(JsonStringify(result.value.configuration))
    /\ result' = validate(configJson')
    /\ UNCHANGED <<metadataVars, parsed, resolverVars, controlVars>>

Next == HostAppendsMapping \/ Validate \/ Revalidate

Spec == Init /\ [][Next]_vars

----------------------------------------------------------------------------
(* DependencyMappingService. *)

\* the truth value of v in a condition
Truthy(v) ==
    CASE v.k = "undefined" -> FALSE
      [] v.k = "null" -> FALSE
      [] v.k = "boolean" -> v.b
      [] v.k = "number" -> ~(v.fin /\ v.n = 0)
      [] v.k = "string" -> v.s # ""
      [] OTHER -> TRUE

\* a faulty initialize: a text that does not parse leaves the configuration
\* that was loaded before
initialize_KeepOnFailure(input) ==
    IF input.k = "null" \/ input.toks = <<>> THEN JsNull
    ELSE LET r == JsonParse(input.toks)
         IN  IF r.threw THEN configuration
             ELSE IF r.val = JsNull THEN JsNull ELSE r.val

\* initialize(configJson): the configuration it leaves.  An empty string
\* is falsy; JSON.parse may throw, and so does reading .mappings of the
\* parsed value null (in the log call); both are caught.
initialize(input) ==
    IF input.k = "null" \/ input.toks = <<>> THEN JsNull
    ELSE LET r == JsonParse(input.toks)
         IN  IF r.threw \/ r.val = JsNull THEN JsNull ELSE r.val

RECURSIVE find(_, _, _)
\* mappings.find((m) => m.parentValue === parentValue) from element i on:
\* the first element that matches or undefined; reading a property of a
\* null element throws
find(mappings, parentValue, i) ==
    IF i > Len(mappings) THEN Returned(JsUndefined)
    ELSE IF mappings[i] = JsNull THEN Threw
    ELSE IF GetProp(mappings[i], "parentValue") = parentValue THEN Returned(mappings[i])
    ELSE find(mappings, parentValue, i + 1)

\* a faulty getDependentValues: the sentinel -1 is looked up like any
\* other parent value
getDependentValues_NoSentinel(cfg, parentValue) ==
    IF ~Truthy(cfg) \/ parentValue = JsNull
    THEN Returned(JsNull)
    ELSE IF ~IsArray(GetProp(cfg, "mappings")) THEN Threw
    ELSE LET mapping == find(GetProp(cfg, "mappings").items, parentValue, 1)
         IN  IF mapping.threw THEN Threw
             ELSE IF Truthy(mapping.value)
             THEN Returned(GetProp(mapping.value, "dependentValues"))
             ELSE Returned(JsNull)

\* getDependentValues(parentValue) on the configuration cfg: the value
\* returned (JsNull for null), or threw (a TypeError: .find of a value that
\* is not an array, or a property of null or undefined)
getDependentValues(cfg, parentValue) ==
    IF ~Truthy(cfg) \/ parentValue = JsNull \/ parentValue = JsNum(-1)
    THEN Returned(JsNull)
    ELSE IF ~IsArray(GetProp(cfg, "mappings")) THEN Threw
    ELSE LET mapping == find(GetProp(cfg, "mappings").items, parentValue, 1)
         IN  IF mapping.threw THEN Threw
             ELSE IF Truthy(mapping.value)
             THEN Returned(GetProp(mapping.value, "dependentValues"))
             ELSE Returned(JsNull)

\* allowedValues.includes(dependentValue) for allowedValues that is not
\* null: an array searches its elements, a string searches the digits of
\* the number (no string of the model holds a digit), any other value has
\* no method includes (a TypeError)
includes(allowedValues, dependentValue) ==
    CASE allowedValues.k = "array" ->
             Returned(JsBool(\E i \in 1..Len(allowedValues.items) :
                                 allowedValues.items[i] = dependentValue))
      [] allowedValues.k = "string" -> Returned(JsFalse)
      [] OTHER -> Threw

\* isAllowed(parentValue, dependentValue) on the configuration cfg
isAllowed(cfg, parentValue, dependentValue) ==
    LET allowedValues == getDependentValues(cfg, parentValue)
    IN  IF allowedValues.threw THEN Threw
        ELSE IF allowedValues.value = JsNull THEN Returned(JsTrue)
        ELSE includes(allowedValues.value, dependentValue)

\* the parentValue arguments of the model: null, the sentinel, mapped and
\* unmapped values
ParentValues == {JsNull} \cup {JsNum(n) : n \in Numbers}
\* the dependentValue arguments of the model
DependentValues == {JsNum(1), JsNum(2), JsNum(3)}
\* the inputs of a further initialize call: none, texts that fail to load
\* and texts that load
ReloadInputs ==
    {NullInput, Text(<<>>), Text(<<Garbage>>), Text(<<" ">>)}
        \cup {Text(t) : t \in ScenarioTexts}

\* PcfContextService's constructor:
\* dependencyMappingService.initialize(configurationParameters ?? null)
Initialize ==
    /\ pc = "start"
    /\ pc' = "initialized"
    /\ configuration' = initialize(IF configJson.k = "undefined" THEN NullInput
                                   ELSE configJson)
    /\ UNCHANGED <<metadataVars, configJson, validatorVars, previous, lookup, allowed, controlVars>>

\* a call of dependencyMappingService.getDependentValues(parentValue)
GetDependentValues ==
    /\ pc \in {"initialized", "lookedUp"}
    /\ pc' = "lookedUp"
    /\ \E parentValue \in ParentValues :
           lookup' = [parentValue |-> parentValue,
                      outcome |-> getDependentValues(configuration, parentValue)]
    /\ UNCHANGED <<metadataVars, configJson, validatorVars, configuration, previous, allowed, controlVars>>

\* a call of dependencyMappingService.isAllowed(parentValue, dependentValue)
IsAllowed ==
    /\ pc = "initialized"
    /\ pc' = "checked"
    /\ \E parentValue \in ParentValues, dependentValue \in DependentValues :
           allowed' = [parentValue |-> parentValue,
                       dependentValue |-> dependentValue,
                       outcome |-> isAllowed(configuration, parentValue, dependentValue)]
    /\ UNCHANGED <<metadataVars, configJson, validatorVars, configuration, previous, lookup, controlVars>>

\* a further call of initialize on the same service, with the same or
\* another input
Reinitialize ==
    /\ pc = "initialized"
    /\ pc' = "reinitialized"
    /\ \E input \in ReloadInputs \cup {configJson} :
           /\ configJson' = input
           /\ configuration' = initialize(IF input.k = "undefined" THEN NullInput
                                          ELSE input)
    /\ previous' = [configJson |-> configJson, configuration |-> configuration]
    /\ UNCHANGED <<metadataVars, validatorVars, lookup, allowed, controlVars>>

HostAppendsLoadedMapping == HostAppends(MaxLoadSize)

NextResolver ==
    \/ HostAppendsLoadedMapping
    \/ Initialize
    \/ GetDependentValues
    \/ IsAllowed
    \/ Reinitialize

SpecResolver == Init /\ [][NextResolver]_vars

----------------------------------------------------------------------------
(* DependentChoiceControl: the options it shows and its effects. *)

\* the options of the dependent choice in the field's metadata
OptionMetadata(value, isHidden) == [Value |-> value, IsHidden |-> isHidden]
Options ==
    <<OptionMetadata(10, FALSE), OptionMetadata(11, TRUE),
      OptionMetadata(20, FALSE), OptionMetadata(100, FALSE)>>

\* mappedOptions: key = opt.Value, hidden = opt.IsHidden ?? false
mappedOptions ==
    [i \in 1..Len(Options) |->
        [key |-> JsNum(Options[i].Value), hidden |-> Options[i].IsHidden]]

\* value.toString() and String(value) of a number, and Number(key) of such
\* a string
KeyString(value) == NumberToString(value)
Number(key) == JsNum(NumberOf[key])
MapString(values) == [i \in 1..Len(values) |-> KeyString(values[i])]
MapNumber(keys) == [i \in 1..Len(keys) |-> Number(keys[i])]

\* allowedValues.has(value) on the values added so far
Has(allowedValues, value) ==
    \E i \in 1..Len(allowedValues) : allowedValues[i] = value

\* a faulty hasNoParentValue: no test for the sentinel -1
hasNoParentValue_NoSentinel(parentChoiceValue) ==
    \/ parentChoiceValue = JsNull
    \/ parentChoiceValue = JsUndefined
    \/ (IsArray(parentChoiceValue) /\ Len(parentChoiceValue.items) = 0)

hasNoParentValue(parentChoiceValue) ==
    \/ parentChoiceValue = JsNull
    \/ parentChoiceValue = JsUndefined
    \/ parentChoiceValue = JsNum(-1)
    \/ (IsArray(parentChoiceValue) /\ Len(parentChoiceValue.items) = 0)

\* Array.isArray(parentChoiceValue) ? parentChoiceValue : [parentChoiceValue]
parentValuesOf(parentChoiceValue) ==
    IF IsArray(parentChoiceValue) THEN parentChoiceValue.items
    ELSE <<parentChoiceValue>>

\* what a forEach loop over parentValues has collected
Collected(threw, hasMappings, allowedValues) ==
    [threw |-> threw, hasMappings |-> hasMappings, allowedValues |-> allowedValues]

RECURSIVE filterAllowedValues(_, _, _, _)
\* filteredOptions' loop from element i on: a lookup that is not null is
\* a mapping and its values are added by allowed.forEach, which is a
\* TypeError for a value that is no array
filterAllowedValues(cfg, parentValues, i, acc) ==
    IF i > Len(parentValues) THEN acc
    ELSE LET allowedOf == getDependentValues(cfg, parentValues[i])
         IN  IF allowedOf.threw THEN Collected(TRUE, acc.hasMappings, acc.allowedValues)
             ELSE IF allowedOf.value = JsNull
             THEN filterAllowedValues(cfg, parentValues, i + 1, acc)
             ELSE IF ~IsArray(allowedOf.value) THEN Collected(TRUE, TRUE, acc.allowedValues)
             ELSE filterAllowedValues(cfg, parentValues, i + 1,
                      Collected(FALSE, TRUE, acc.allowedValues \o allowedOf.value.items))

RECURSIVE effectAllowedValues(_, _, _, _)
\* the auto-remove effect's loop from element i on: a lookup that is
\* truthy has its values added by allowed.forEach; nothing records
\* whether a mapping was found
effectAllowedValues(cfg, parentValues, i, acc) ==
    IF i > Len(parentValues) THEN acc
    ELSE LET allowedOf == getDependentValues(cfg, parentValues[i])
         IN  IF allowedOf.threw THEN Collected(TRUE, FALSE, acc.allowedValues)
             ELSE IF ~Truthy(allowedOf.value)
             THEN effectAllowedValues(cfg, parentValues, i + 1, acc)
             ELSE IF ~IsArray(allowedOf.value) THEN Collected(TRUE, FALSE, acc.allowedValues)
             ELSE effectAllowedValues(cfg, parentValues, i + 1,
                      Collected(FALSE, FALSE, acc.allowedValues \o allowedOf.value.items))

\* filteredOptions: the options shown (or threw, while rendering), with
\* hasMappings and allowedValues as the memo computed them
filteredOptions(cfg, pr, key, keys) ==
    IF hasNoParentValue(pr.parentChoiceValue)
    THEN [outcome |-> Returned(mappedOptions), hasMappings |-> FALSE, allowedValues |-> <<>>]
    ELSE LET c == filterAllowedValues(cfg, parentValuesOf(pr.parentChoiceValue), 1,
                                      Collected(FALSE, FALSE, <<>>))
         IN  [outcome |->
                  IF c.threw THEN Threw
                  ELSE IF ~c.hasMappings THEN Returned(mappedOptions)
                  ELSE Returned(SelectSeq(mappedOptions, LAMBDA opt :
                           /\ ~opt.hidden
                           /\ \/ Has(c.allowedValues, opt.key)
                              \/ (~pr.isMultiSelect /\ key # "" /\ key = KeyString(opt.key))
                              \/ (pr.isMultiSelect
                                     /\ \E a \in 1..Len(keys) : keys[a] = KeyString(opt.key)))),
              hasMappings |-> c.hasMappings,
              allowedValues |-> c.allowedValues]

\* what an effect does: whether it threw, the onChange calls it makes, and
\* the state it sets (the state it found where it sets nothing)
Effect(threw, calls, key, keys) ==
    [threw |-> threw, calls |-> calls, key |-> key, keys |-> keys]

\* the effect on props.currentValue: the state follows the prop
syncEffect(pr, key, keys) ==
    IF pr.isMultiSelect
    THEN Effect(FALSE, <<>>, key,
                IF IsArray(pr.currentValue) THEN MapString(pr.currentValue.items)
                ELSE <<>>)
    ELSE Effect(FALSE, <<>>,
                IF pr.currentValue \notin {JsNull, JsUndefined}
                THEN KeyString(pr.currentValue) ELSE "",
                keys)

\* a faulty clear effect: it does not look at the selection
clearEffect_Unconditional(pr, key, keys) ==
    IF ~hasNoParentValue(pr.parentChoiceValue) THEN Effect(FALSE, <<>>, key, keys)
    ELSE IF pr.isMultiSelect THEN Effect(FALSE, <<JsArr(<<>>)>>, key, <<>>)
    ELSE Effect(FALSE, <<JsNull>>, "", keys)

\* the effect that clears the dependent choice when the parent has no value
clearEffect(pr, key, keys) ==
    IF ~hasNoParentValue(pr.parentChoiceValue) THEN Effect(FALSE, <<>>, key, keys)
    ELSE IF pr.isMultiSelect
    THEN IF Len(keys) > 0 THEN Effect(FALSE, <<JsArr(<<>>)>>, key, <<>>)
         ELSE Effect(FALSE, <<>>, key, keys)
    ELSE IF key # "" /\ key # "-1" THEN Effect(FALSE, <<JsNull>>, "", keys)
         ELSE Effect(FALSE, <<>>, key, keys)

\* a faulty auto-remove effect: it handles the multi-select case only
autoRemoveEffect_MultiOnly(cfg, pr, key, keys) ==
    IF ~Truthy(pr.parentChoiceValue) THEN Effect(FALSE, <<>>, key, keys)
    ELSE LET parentValues == parentValuesOf(pr.parentChoiceValue)
         IN  IF \/ Len(parentValues) = 0
                \/ parentValues[1] \in {JsNum(-1), JsNull, JsUndefined}
             THEN Effect(FALSE, <<>>, key, keys)
             ELSE LET c == effectAllowedValues(cfg, parentValues, 1,
                                               Collected(FALSE, FALSE, <<>>))
                      validSelectedKeys ==
                          SelectSeq(keys, LAMBDA k : Has(c.allowedValues, Number(k)))
                  IN  IF c.threw THEN Effect(TRUE, <<>>, key, keys)
                      ELSE IF pr.isMultiSelect /\ Len(keys) > 0
                                 /\ Len(validSelectedKeys) # Len(keys)
                      THEN Effect(FALSE, <<JsArr(MapNumber(validSelectedKeys))>>,
                                  key, validSelectedKeys)
                      ELSE Effect(FALSE, <<>>, key, keys)

\* the effect that removes the selections the parent no longer allows
autoRemoveEffect(cfg, pr, key, keys) ==
    IF ~Truthy(pr.parentChoiceValue) THEN Effect(FALSE, <<>>, key, keys)
    ELSE LET parentValues == parentValuesOf(pr.parentChoiceValue)
         IN  IF \/ Len(parentValues) = 0
                \/ parentValues[1] \in {JsNum(-1), JsNull, JsUndefined}
             THEN Effect(FALSE, <<>>, key, keys)
             ELSE LET c == effectAllowedValues(cfg, parentValues, 1,
                                               Collected(FALSE, FALSE, <<>>))
                      validSelectedKeys ==
                          SelectSeq(keys, LAMBDA k : Has(c.allowedValues, Number(k)))
                  IN  IF c.threw THEN Effect(TRUE, <<>>, key, keys)
                      ELSE IF pr.isMultiSelect /\ Len(keys) > 0
                      THEN IF Len(validSelectedKeys) # Len(keys)
                           THEN Effect(FALSE, <<JsArr(MapNumber(validSelectedKeys))>>,
                                       key, validSelectedKeys)
                           ELSE Effect(FALSE, <<>>, key, keys)
                      ELSE IF ~pr.isMultiSelect /\ key # "" /\ key # "-1"
                                 /\ ~Has(c.allowedValues, Number(key))
                      THEN Effect(FALSE, <<JsNull>>, "", keys)
                      ELSE Effect(FALSE, <<>>, key, keys)

\* onChange without the lines 119-120: the reported value is stored as it is
onChange_NoSentinel(newValue) == newValue

\* DependentChoice.onChange(newValue): the selectedValue it stores
onChange(newValue) ==
    IF \/ newValue = JsNum(-1)
       \/ (IsArray(newValue) /\ Has(newValue.items, JsNum(-1)))
    THEN JsNull ELSE newValue

\* getOutputs().dependentChoice
getOutputs(isMultiSelect, value) ==
    IF isMultiSelect THEN (IF IsArray(value) THEN value ELSE JsArr(<<>>))
    ELSE (IF IsArray(value) THEN JsNull ELSE value)

\* the parent selections and the dependent values of the model
ParentSelections ==
    {JsNull, JsUndefined, JsNum(-1), JsArr(<<>>), JsNum(1), JsNum(2), JsNum(3),
     JsArr(<<JsNum(1), JsNum(2)>>), JsArr(<<JsNum(1), JsNum(3)>>)}
CurrentValues(isMultiSelect) ==
    IF isMultiSelect
    THEN {JsNull, JsArr(<<>>), JsArr(<<JsNum(10)>>), JsArr(<<JsNum(20), JsNum(10)>>),
          JsArr(<<JsNum(10), JsNum(100), JsNum(11)>>)}
    ELSE {JsNull, JsNum(-1), JsNum(10), JsNum(11), JsNum(20), JsNum(100)}

\* the configuration texts of the control: none, mappings, an empty
\* mapping, and texts that load but are no dependency configuration
Pair(parentValue, dependentValues) ==
    ObjectText(<<MemberText("parentValue", <<NumLiteral(parentValue)>>),
                 MemberText("dependentValues",
                     <<"[">> \o JoinTokens([i \in 1..Len(dependentValues) |->
                                               <<NumLiteral(dependentValues[i])>>], ",")
                           \o <<"]">>)>>)
ControlTexts ==
    {MappingsText(Pair(1, <<10, 11>>) \o <<",">> \o Pair(2, <<20>>)),
     MappingsText(Pair(1, <<100>>) \o <<",">> \o Pair(2, <<200, 201>>)),
     MappingsText(Pair(1, <<>>)),
     ObjectText(<<>>),
     MappingsText(Pair(1, <<10>>) \o <<",", "null">>),
     MappingsText(ObjectText(<<MemberText("parentValue", <<NumLiteral(1)>>)>>))}
ControlInputs == {NullInput} \cup {Text(t) : t \in ControlTexts}

----------------------------------------------------------------------------
(* The control as a state machine: the host renders it with updateView,    *)
(* React renders it and runs its effects, commit after commit, until its   *)
(* state no longer changes.                                                *)

\* the --Select-- option and when it is displayed
selectOption == [key |-> JsNum(-1)]
includeSelectOption(pr) == ~pr.isMultiSelect /\ ~Truthy(pr.defaultValue)
displayedOptions(pr, filtered) ==
    IF includeSelectOption(pr) THEN <<selectOption>> \o filtered ELSE filtered

\* the selected options a click on an option leaves in a multi-select
\* dropdown: the option is added, or taken out when it was selected
Toggle(keys, key) ==
    IF \E a \in 1..Len(keys) : keys[a] = key
    THEN SelectSeq(keys, LAMBDA k : k # key)
    ELSE Append(keys, key)

\* the default value of the dependent choice in the field's metadata:
\* none (also in design mode), 0 and another option value
DefaultValues == {JsUndefined, JsNum(0), JsNum(10)}

\* the inputs of the application as a whole: parent selections, dependent
\* values (one with the sentinel in a multi-select value) and configuration
\* texts: none, not JSON, valid, and rejected by validate but loaded
AppParentSelections ==
    {JsNull, JsNum(1), JsNum(2), JsArr(<<JsNum(1), JsNum(3)>>)}
AppCurrentValues(isMultiSelect) ==
    IF isMultiSelect
    THEN {JsArr(<<>>), JsArr(<<JsNum(10)>>), JsArr(<<JsNum(20), JsNum(-1)>>)}
    ELSE {JsNull, JsNum(10), JsNum(20)}
AppTexts ==
    {<<Garbage>>,
     MappingsText(Pair(1, <<10, 11>>) \o <<",">> \o Pair(2, <<20>>)),
     MappingsText(Pair(1, <<10, -1>>)),
     MappingsText(Pair(1, <<10>>) \o <<",", "null">>),
     ObjectText(<<>>)}
AppInputs == {NullInput} \cup {Text(t) : t \in AppTexts}

\* ConfigurationValidator.validate on each configuration text of the
\* control, computed once
validationResults == [input \in ControlInputs \cup AppInputs |-> validate(input)]

InitControl ==
    /\ configJson \in ControlInputs
    /\ InitRest

InitApp ==
    /\ configJson \in AppInputs
    /\ InitRest

\* the first updateView and render: the state starts from props.currentValue
\* and every effect is due
MountWith(parentSelections, currentValues, defaultValues) ==
    /\ pc = "initialized"
    /\ pc' = "dirty"
    /\ \E isMultiSelect \in BOOLEAN :
       \E parentChoiceValue \in parentSelections :
       \E currentValue \in currentValues[isMultiSelect] :
       \E defaultValue \in defaultValues :
           /\ props' = [isMultiSelect |-> isMultiSelect,
                        parentChoiceValue |-> parentChoiceValue,
                        currentValue |-> currentValue,
                        defaultValue |-> defaultValue]
           /\ selectedKey' = IF ~isMultiSelect /\ currentValue \notin {JsNull, JsUndefined}
                             THEN KeyString(currentValue) ELSE ""
           /\ selectedKeys' = IF isMultiSelect /\ IsArray(currentValue)
                              THEN MapString(currentValue.items) ELSE <<>>
    /\ syncDue' = TRUE
    /\ validationDue' = TRUE
    /\ event' = "mount"
    /\ UNCHANGED <<metadataVars, configJson, validatorVars, resolverVars, view, changes,
                   selectedValue, updates, fired, configErrors, showErrorDialog,
                   notified>>

\* in design mode: no default value
Mount ==
    MountWith(ParentSelections, [m \in BOOLEAN |-> CurrentValues(m)], {JsUndefined})
MountApp ==
    MountWith(AppParentSelections, [m \in BOOLEAN |-> AppCurrentValues(m)],
              DefaultValues)

\* one render and commit: filteredOptions is computed while rendering (an
\* exception there unmounts the control); then the effects run in order,
\* each on the state of this render, the last state set wins, and every
\* onChange call reaches DependentChoice.onChange, which calls
\* notifyOutputChanged.  DependentChoiceApp's effect runs after them when
\* the configuration text is new.
Commit ==
    /\ pc = "dirty"
    /\ LET rendered == filteredOptions(configuration, props, selectedKey, selectedKeys)
           synced == IF syncDue THEN syncEffect(props, selectedKey, selectedKeys)
                     ELSE Effect(FALSE, <<>>, selectedKey, selectedKeys)
           cleared == clearEffect(props, selectedKey, selectedKeys)
           removed == IF rendered.outcome.threw
                      THEN Effect(FALSE, <<>>, selectedKey, selectedKeys)
                      ELSE autoRemoveEffect(configuration, props, selectedKey, selectedKeys)
           calls == cleared.calls \o removed.calls
           last == IF removed.calls # <<>> THEN removed
                   ELSE IF cleared.calls # <<>> THEN cleared
                   ELSE synced
       IN  /\ view' = rendered
           /\ IF rendered.outcome.threw \/ removed.threw
              THEN /\ pc' = "crashed"
                   /\ UNCHANGED <<metadataVars, selectedKey, selectedKeys, changes, selectedValue, fired,
                                  notified>>
              ELSE /\ selectedKey' = last.key
                   /\ selectedKeys' = last.keys
                   /\ changes' = changes \o calls
                   /\ selectedValue' = IF calls = <<>> THEN selectedValue
                                       ELSE onChange(calls[Len(calls)])
                   /\ notified' = notified + Len(calls)
                   /\ fired' = fired + Len(calls)
                   /\ pc' = IF validationDue THEN "effect"
                            ELSE IF last.key = selectedKey /\ last.keys = selectedKeys
                            THEN "idle" ELSE "dirty"
    /\ syncDue' = FALSE
    /\ UNCHANGED <<metadataVars, configJson, validatorVars, resolverVars, props, updates, event,
                   configErrors, showErrorDialog, validationDue>>

\* DependentChoiceApp's effect on props.configurationParameters: the result
\* of validate decides configErrors and showErrorDialog; setting them
\* renders the application again
ValidateConfiguration ==
    /\ pc = "effect"
    /\ result' = validationResults[configJson]
    /\ pc' = IF result'.threw THEN "crashed" ELSE "dirty"
    /\ configErrors' = IF result'.threw THEN configErrors
                       ELSE IF ~result'.value.isValid THEN result'.value.errors
                       ELSE <<>>
    /\ showErrorDialog' = IF result'.threw THEN showErrorDialog
                          ELSE ~result'.value.isValid
    /\ validationDue' = FALSE
    /\ UNCHANGED <<metadataVars, configJson, parsed, first, resolverVars, props, selectedKey,
                   selectedKeys, view, changes, selectedValue, syncDue, updates, fired,
                   event, notified>>

\* updateView after the parent choice changed; an array currentValue may
\* be a new array with the same elements
HostChangesParentIn(parentSelections) ==
    /\ pc = "idle"
    /\ updates < MaxUpdates
    /\ \E parentChoiceValue \in parentSelections \ {props.parentChoiceValue} :
           props' = [props EXCEPT !.parentChoiceValue = parentChoiceValue]
    /\ syncDue' \in (IF IsArray(props.currentValue) THEN BOOLEAN ELSE {FALSE})
    /\ updates' = updates + 1
    /\ fired' = 0
    /\ event' = "parent"
    /\ pc' = "dirty"
    /\ UNCHANGED <<metadataVars, configJson, validatorVars, resolverVars, selectedKey, selectedKeys,
                   view, changes, selectedValue, configErrors, showErrorDialog,
                   notified, validationDue>>

HostChangesParent == HostChangesParentIn(ParentSelections)
HostChangesParentApp == HostChangesParentIn(AppParentSelections)

\* updateView after the dependent choice was changed outside the control
HostChangesValueIn(currentValues) ==
    /\ pc = "idle"
    /\ updates < MaxUpdates
    /\ \E currentValue \in currentValues[props.isMultiSelect] \ {props.currentValue} :
           props' = [props EXCEPT !.currentValue = currentValue]
    /\ syncDue' = TRUE
    /\ updates' = updates + 1
    /\ fired' = 0
    /\ event' = "value"
    /\ pc' = "dirty"
    /\ UNCHANGED <<metadataVars, configJson, validatorVars, resolverVars, selectedKey, selectedKeys,
                   view, changes, selectedValue, configErrors, showErrorDialog,
                   notified, validationDue>>

HostChangesValue == HostChangesValueIn([m \in BOOLEAN |-> CurrentValues(m)])
HostChangesValueApp == HostChangesValueIn([m \in BOOLEAN |-> AppCurrentValues(m)])

\* updateView after notifyOutputChanged: the host took getOutputs() and
\* supplies it as the dependent choice
HostReturnsOutput ==
    /\ pc = "idle"
    /\ updates < MaxUpdates
    /\ changes # <<>>
    /\ props' = [props EXCEPT
                     !.currentValue = getOutputs(props.isMultiSelect, selectedValue)]
    /\ syncDue' = (props'.currentValue # props.currentValue \/ IsArray(props'.currentValue))
    /\ updates' = updates + 1
    /\ event' = "output"
    /\ pc' = "dirty"
    /\ UNCHANGED <<metadataVars, configJson, validatorVars, resolverVars, selectedKey, selectedKeys,
                   view, changes, selectedValue, fired, configErrors, showErrorDialog,
                   notified, validationDue>>

\* updateView after the customizer replaced the configuration text: the
\* render makes a new PcfContextService, which loads the text
HostChangesConfiguration ==
    /\ pc = "idle"
    /\ updates < MaxUpdates
    /\ \E input \in AppInputs \ {configJson} :
           /\ configJson' = input
           /\ configuration' = initialize(input)
    /\ syncDue' \in (IF IsArray(props.currentValue) THEN BOOLEAN ELSE {FALSE})
    /\ updates' = updates + 1
    /\ fired' = 0
    /\ event' = "config"
    /\ validationDue' = TRUE
    /\ pc' = "dirty"
    /\ UNCHANGED <<metadataVars, validatorVars, previous, lookup, allowed, props, selectedKey,
                   selectedKeys, view, changes, selectedValue, configErrors,
                   showErrorDialog, notified>>

\* onOptionSelect: the user clicks one of the displayed options (the
\* dropdown is disabled while the parent has no value)
OnOptionSelect ==
    /\ pc = "idle"
    /\ updates < MaxUpdates
    /\ ~hasNoParentValue(props.parentChoiceValue)
    /\ LET displayed == displayedOptions(props, view.outcome.value)
       IN  \E d \in 1..Len(displayed) :
               LET newSelected ==
                       IF props.isMultiSelect
                       THEN Toggle(selectedKeys, KeyString(displayed[d].key))
                       ELSE KeyString(displayed[d].key)
                   newValue == IF props.isMultiSelect THEN JsArr(MapNumber(newSelected))
                               ELSE Number(newSelected)
               IN  /\ selectedKeys' = IF props.isMultiSelect THEN newSelected
                                      ELSE selectedKeys
                   /\ selectedKey' = IF props.isMultiSelect THEN selectedKey
                                     ELSE newSelected
                   /\ changes' = Append(changes, newValue)
                   /\ selectedValue' = onChange(newValue)
    /\ notified' = notified + 1
    /\ syncDue' = FALSE
    /\ updates' = updates + 1
    /\ fired' = 0
    /\ event' = "select"
    /\ pc' = "dirty"
    /\ UNCHANGED <<metadataVars, configJson, validatorVars, resolverVars, props, view, configErrors,
                   showErrorDialog, validationDue>>

\* onDismiss: the user closes the error dialog
OnDismiss ==
    /\ pc = "idle"
    /\ showErrorDialog
    /\ showErrorDialog' = FALSE
    /\ UNCHANGED <<metadataVars, configJson, pc, validatorVars, resolverVars, props, selectedKey,
                   selectedKeys, view, changes, selectedValue, syncDue, updates, fired,
                   event, configErrors, notified, validationDue>>

NextControl ==
    \/ Initialize
    \/ Mount
    \/ Commit
    \/ ValidateConfiguration
    \/ HostChangesParent
    \/ HostChangesValue
    \/ HostReturnsOutput

SpecControl == InitControl /\ [][NextControl]_vars

NextApp ==
    \/ Initialize
    \/ MountApp
    \/ Commit
    \/ ValidateConfiguration
    \/ HostChangesParentApp
    \/ HostChangesValueApp
    \/ HostReturnsOutput
    \/ HostChangesConfiguration
    \/ OnOptionSelect
    \/ OnDismiss

SpecApp == InitApp /\ [][NextApp]_vars

----------------------------------------------------------------------------
(* Properties of ConfigurationValidator.validate, checked under Spec.      *)

\* null, undefined, the empty string or a string of white space only
IsBlankInput(input) ==
    \/ input.k \in {"null", "undefined"}
    \/ \A i \in 1..Len(input.toks) : input.toks[i] \in {" ", "\n", NoBreakSpace}

\* the failed result with exactly one error
FailsWith(msg) ==
    Returned(ValidationResult(FALSE, <<Error(msg, -1, -1, "")>>, JsUndefined))

\* validate ran on a text whose root is an object with an array "mappings"
ValidatedMappingsArray ==
    /\ pc = "validated"
    /\ ~parsed.threw
    /\ parsed.value.k = "object"
    /\ IsArray(GetProp(parsed.value, "mappings"))

\* the elements of that array
InputMappings == GetProp(parsed.value, "mappings").items

\* the structural rules, stated on an element m of the array
IsObjectElement(m) == m.k = "object"
HasNumericParent(m) ==
    IsObjectElement(m) /\ HasProp(m, "parentValue") /\ GetProp(m, "parentValue").k = "number"
HasNumericDependents(m) ==
    /\ IsObjectElement(m) /\ HasProp(m, "dependentValues")
    /\ GetProp(m, "dependentValues").k = "array"
    /\ \A a \in 1..Len(GetProp(m, "dependentValues").items) :
           GetProp(m, "dependentValues").items[a].k = "number"
HasRepeatedDependent(m) ==
    /\ HasNumericDependents(m)
    /\ \E a, b \in 1..Len(GetProp(m, "dependentValues").items) :
           a < b /\ GetProp(m, "dependentValues").items[a]
                       = GetProp(m, "dependentValues").items[b]
\* element i has the numeric parentValue of an earlier element
RepeatsParent(items, i) ==
    /\ HasNumericParent(items[i])
    /\ \E h \in 1..(i - 1) :
           /\ HasNumericParent(items[h])
           /\ GetProp(items[h], "parentValue") = GetProp(items[i], "parentValue")
ParentRejected(items, i) ==
    IsObjectElement(items[i]) /\ (~HasNumericParent(items[i]) \/ RepeatsParent(items, i))
DependentsRejected(m) == IsObjectElement(m) /\ ~HasNumericDependents(m)
ViolatesRule(items, i) ==
    \/ ~IsObjectElement(items[i])
    \/ ParentRejected(items, i)
    \/ DependentsRejected(items[i])
    \/ HasRepeatedDependent(items[i])

\* C1: validate applied to null, undefined, the empty string or a string of
\* white space only returns isValid = true, no errors and a configuration
\* with zero mappings.
C1_BlankInputIsValidAndEmpty ==
    (pc = "validated" /\ IsBlankInput(configJson))
        => result = Returned(ValidationResult(TRUE, <<>>,
                                 JsObj(<<Member("mappings", JsArr(<<>>))>>)))

C1_Witness ==
    /\ pc = "validated"
    /\ configJson.k = "string"
    /\ Len(configJson.toks) = 2
    /\ IsBlankInput(configJson)
    /\ ~result.threw /\ result.value.isValid

\* C2: for every input validate returns a result without raising; in it
\* errors is empty iff isValid, and configuration is present iff isValid.
C2_ValidateNeverRaises ==
    pc \in {"validated", "revalidated"}
        => /\ ~result.threw
           /\ (result.value.errors = <<>>) <=> result.value.isValid
           /\ (result.value.configuration # JsUndefined) <=> result.value.isValid

\* C3: the root checks run in a fixed order and stop at the first failure:
\* text that is not JSON, a root that is no object, an object without
\* "mappings", and a "mappings" that is no array each give isValid = false
\* with exactly one error for that condition (no element is inspected).
C3_RootChecksStopAtFirstFailure ==
    (pc = "validated" /\ ~IsBlankInput(configJson))
        => /\ configJson.toks \in UnparseableTexts => parsed.threw
           /\ parsed.threw => result = FailsWith("Invalid JSON format: ${error.message}")
           /\ (~parsed.threw /\ parsed.value.k # "object")
                  => result = FailsWith("Configuration must be a JSON object, not an array or primitive value")
           /\ (~parsed.threw /\ parsed.value.k = "object" /\ ~HasProp(parsed.value, "mappings"))
                  => result = FailsWith("Configuration must have a \"mappings\" property")
           /\ (~parsed.threw /\ parsed.value.k = "object" /\ HasProp(parsed.value, "mappings")
                  /\ GetProp(parsed.value, "mappings").k # "array")
                  => result = FailsWith("\"mappings\" must be an array")

C3_Witness ==
    /\ pc = "validated"
    /\ ~parsed.threw
    /\ parsed.value = JsArr(<<JsObj(<<Member("mappings", JsArr(<<>>))>>)>>)
    /\ ~result.threw /\ Len(result.value.errors) = 1

\* C4: when "mappings" is an array every element is examined: each element
\* that violates a structural rule contributes at least one error to the
\* single failed result, and the errors are in ascending order of the
\* element index they refer to.
C4_EveryElementExamined ==
    ValidatedMappingsArray
        => /\ ~result.threw
           /\ \A i \in 1..Len(InputMappings) :
                  ViolatesRule(InputMappings, i)
                      => \E e \in 1..Len(result.value.errors) :
                             result.value.errors[e].index = i - 1
           /\ \A e, f \in 1..Len(result.value.errors) :
                  e < f => result.value.errors[e].index <= result.value.errors[f].index
           /\ (\E i \in 1..Len(InputMappings) : ViolatesRule(InputMappings, i))
                  => ~result.value.isValid

\* the errors about parentValue and about dependentValues
ParentMessages ==
    {"Mapping at index ${index} is missing \"parentValue\" property",
     "Mapping at index ${index} has invalid \"parentValue\": must be a number",
     "Duplicate parentValue ${parentValue} found at index ${index}"}
DependentMessages ==
    {"Mapping at index ${index} is missing \"dependentValues\" property",
     "Mapping at index ${index} has invalid \"dependentValues\": must be an array",
     "Mapping at index ${index}, dependentValues[${j}]: \"${String(element)}\" is not a number"}

\* C5: within one object element the parentValue checks and the
\* dependentValues checks are independent: an element that fails both
\* yields an error for each property, the parentValue error first.
C5_ParentAndDependentChecksIndependent ==
    ValidatedMappingsArray
        => \A i \in 1..Len(InputMappings) :
               (ParentRejected(InputMappings, i) /\ DependentsRejected(InputMappings[i]))
                   => /\ ~result.threw
                      /\ \E e, f \in 1..Len(result.value.errors) :
                             /\ e < f
                             /\ result.value.errors[e].index = i - 1
                             /\ result.value.errors[e].msg \in ParentMessages
                             /\ result.value.errors[f].index = i - 1
                             /\ result.value.errors[f].msg \in DependentMessages

\* C6: if two elements carry the same numeric parentValue, validate returns
\* isValid = false with an error naming the value and the index of the
\* later element, and the result carries no configuration.
C6_DuplicateParentRejected ==
    ValidatedMappingsArray
        => \A i \in 1..Len(InputMappings) :
               RepeatsParent(InputMappings, i)
                   => /\ ~result.threw
                      /\ ~result.value.isValid
                      /\ result.value.configuration = JsUndefined
                      /\ \E e \in 1..Len(result.value.errors) :
                             result.value.errors[e] =
                                 Error("Duplicate parentValue ${parentValue} found at index ${index}",
                                       i - 1, -1,
                                       NumberToString(GetProp(InputMappings[i], "parentValue")))

\* the values of a sequence of numbers that occur before, once per
\* repeated occurrence, as text
RepeatedValuesText(values) ==
    JoinStrings([a \in 1..Len(SelectSeq([b \in 1..Len(values) |-> b],
                                 LAMBDA b : \E c \in 1..(b - 1) : values[c] = values[b])) |->
                    NumberToString(values[SelectSeq([b \in 1..Len(values) |-> b],
                        LAMBDA b : \E c \in 1..(b - 1) : values[c] = values[b])[a]])],
                ", ")

\* C7: if a mapping's dependentValues holds only numbers, one of them
\* repeated, validate returns isValid = false with exactly one error for
\* that mapping, naming the mapping index and the repeated values.
C7_RepeatedDependentReported ==
    ValidatedMappingsArray
        => \A i \in 1..Len(InputMappings) :
               HasRepeatedDependent(InputMappings[i])
                   => /\ ~result.threw
                      /\ ~result.value.isValid
                      /\ \A e \in 1..Len(result.value.errors) :
                             result.value.errors[e].index = i - 1
                                 => result.value.errors[e] =
                                        Error("Mapping at index ${index} has duplicate dependentValues: [${duplicates.join(\", \")}]",
                                              i - 1, -1,
                                              RepeatedValuesText(
                                                  GetProp(InputMappings[i], "dependentValues").items))
                      /\ Cardinality({e \in 1..Len(result.value.errors) :
                                         result.value.errors[e].index = i - 1}) = 1

\* C8: if every element of "mappings" is well formed, with pairwise distinct
\* parentValues and numeric dependentValues without repeats, validate
\* returns isValid = true and configuration.mappings has, position by
\* position, the parentValue and the dependentValues of the input elements.
C8_WellFormedInputKept ==
    (/\ ValidatedMappingsArray
     /\ \A i \in 1..Len(InputMappings) : ~ViolatesRule(InputMappings, i))
        => result = Returned(ValidationResult(TRUE, <<>>,
               JsObj(<<Member("mappings", JsArr(
                   [i \in 1..Len(InputMappings) |->
                       JsObj(<<Member("parentValue", GetProp(InputMappings[i], "parentValue")),
                               Member("dependentValues",
                                      GetProp(InputMappings[i], "dependentValues"))>>)]))>>)))

C8_Witness ==
    /\ ValidatedMappingsArray
    /\ Len(InputMappings) = 2
    /\ \A i \in 1..Len(InputMappings) : ~ViolatesRule(InputMappings, i)
    /\ GetProp(InputMappings[2], "dependentValues") = JsArr(<<JsNum(2)>>)
    /\ ~result.threw /\ result.value.isValid

\* C9: round trip: for every text validate accepts, validating the
\* serialisation of the returned configuration gives isValid = true and
\* the same mappings.
C9_RoundTrip ==
    pc = "revalidated"
        => /\ ~result.threw
           /\ result.value.isValid
           /\ result.value.configuration = first.value.configuration

----------------------------------------------------------------------------
(* Properties of DependencyMappingService, checked under SpecResolver.     *)

\* the mappings of the loaded configuration (none when it has no array
\* "mappings")
LoadedMappings ==
    IF IsArray(GetProp(configuration, "mappings"))
    THEN GetProp(configuration, "mappings").items
    ELSE <<>>

\* C10: getDependentValues(p) returns null ("no restriction") exactly when
\* no configuration is loaded, p is null, p is the sentinel -1, or no loaded
\* mapping has parentValue p; otherwise it returns the dependentValues of
\* the (first) mapping for p, and an empty dependentValues is returned as
\* the empty list, not as null.
C10_LookupContract ==
    pc = "lookedUp"
        => /\ ~lookup.outcome.threw
           /\ (lookup.outcome.value = JsNull)
                  <=> \/ configuration = JsNull
                      \/ lookup.parentValue = JsNull
                      \/ lookup.parentValue = JsNum(-1)
                      \/ \A i \in 1..Len(LoadedMappings) :
                             GetProp(LoadedMappings[i], "parentValue") # lookup.parentValue
           /\ (lookup.outcome.value # JsNull)
                  => \E i \in 1..Len(LoadedMappings) :
                         /\ GetProp(LoadedMappings[i], "parentValue") = lookup.parentValue
                         /\ \A h \in 1..(i - 1) :
                                GetProp(LoadedMappings[h], "parentValue") # lookup.parentValue
                         /\ lookup.outcome.value = GetProp(LoadedMappings[i], "dependentValues")

\* the loaded text is bad input: not JSON, or JSON that is no object with
\* an array "mappings" of objects
IsBadInput ==
    /\ configJson.k = "string"
    /\ configJson.toks # <<>>
    /\ LET r == JsonParse(configJson.toks)
       IN  \/ r.threw
           \/ r.val.k # "object"
           \/ ~IsArray(GetProp(r.val, "mappings"))
           \/ \E i \in 1..Len(GetProp(r.val, "mappings").items) :
                  ~IsObjectElement(GetProp(r.val, "mappings").items[i])

\* C11: isAllowed(p, d) is true iff getDependentValues(p) is null or the
\* list it returns contains d; with no configuration or zero mappings
\* loaded it is true for every p and d, and for a mapped p it is false for
\* every d outside the mapping.
C11_IsAllowedFollowsLookup ==
    pc = "checked"
        => /\ (allowed.outcome = Returned(JsTrue))
                  <=> LET r == getDependentValues(configuration, allowed.parentValue)
                      IN  /\ ~r.threw
                          /\ \/ r.value = JsNull
                             \/ /\ IsArray(r.value)
                                /\ \E i \in 1..Len(r.value.items) :
                                       r.value.items[i] = allowed.dependentValue
           /\ (configuration = JsNull \/ LoadedMappings = <<>>)
                  => allowed.outcome = Returned(JsTrue)
           /\ (/\ allowed.parentValue \notin {JsNull, JsNum(-1)}
               /\ \E i \in 1..Len(LoadedMappings) :
                      GetProp(LoadedMappings[i], "parentValue") = allowed.parentValue
               /\ \A i \in 1..Len(LoadedMappings) :
                      GetProp(LoadedMappings[i], "parentValue") = allowed.parentValue
                          => \/ ~IsArray(GetProp(LoadedMappings[i], "dependentValues"))
                             \/ \A a \in 1..Len(GetProp(LoadedMappings[i], "dependentValues").items) :
                                    GetProp(LoadedMappings[i], "dependentValues").items[a]
                                        # allowed.dependentValue)
                  => allowed.outcome = Returned(JsFalse)

\* C12: the resolver never raises on bad input: after initialize with any
\* text every getDependentValues and isAllowed call returns, and bad input
\* behaves as "no mapping available" (every lookup returns null, every
\* value is allowed).
C12_ResolverNeverRaises ==
    /\ pc = "lookedUp" => ~lookup.outcome.threw
    /\ pc = "checked" => ~allowed.outcome.threw
    /\ (pc = "lookedUp" /\ IsBadInput) => lookup.outcome = Returned(JsNull)
    /\ (pc = "checked" /\ IsBadInput) => allowed.outcome = Returned(JsTrue)

\* C13: after initialize(x) the configuration is determined by x alone: a
\* load followed by initialize with null, empty or unparseable text leaves
\* no configuration, a text that parses leaves what it denotes (nothing is
\* merged), and initialize with the same input again leaves the same state.
C13_InitializeReplaces ==
    pc = "reinitialized"
        => /\ (\/ configJson.k \in {"null", "undefined"}
               \/ configJson.toks = <<>>
               \/ JsonParse(configJson.toks).threw)
                  => configuration = JsNull
           /\ (configJson.k = "string" /\ ~JsonParse(configJson.toks).threw)
                  => configuration = JsonParse(configJson.toks).val
           /\ configJson = previous.configJson
                  => configuration = previous.configuration

C13_Witness ==
    /\ pc = "reinitialized"
    /\ previous.configuration # JsNull
    /\ Len(LET m == GetProp(previous.configuration, "mappings")
           IN  IF IsArray(m) THEN m.items ELSE <<>>) = 2
    /\ configJson = Text(<<Garbage>>)
    /\ configuration = JsNull

----------------------------------------------------------------------------
(* Properties of DependentChoiceControl, checked under SpecControl.        *)

\* the selected parent values, and whether the loaded configuration has a
\* mapping for one of them
SelectedParents == parentValuesOf(props.parentChoiceValue)
IsMapped(parentValue) ==
    /\ parentValue \notin {JsNull, JsNum(-1)}
    /\ \E i \in 1..Len(LoadedMappings) :
           GetProp(LoadedMappings[i], "parentValue") = parentValue
\* the parent selection counts as empty: null, undefined, the sentinel -1
\* or an empty array
NoParentSelected ==
    props.parentChoiceValue \in {JsNull, JsUndefined, JsNum(-1), JsArr(<<>>)}
NoneMapped == \A a \in 1..Len(SelectedParents) : ~IsMapped(SelectedParents[a])
\* the dependentValues of the (first) mapping for a mapped parent value
DependentsOf(parentValue) ==
    LET m == LoadedMappings[CHOOSE i \in 1..Len(LoadedMappings) :
                 /\ GetProp(LoadedMappings[i], "parentValue") = parentValue
                 /\ \A h \in 1..(i - 1) :
                        GetProp(LoadedMappings[h], "parentValue") # parentValue]
    IN  IF IsArray(GetProp(m, "dependentValues"))
        THEN GetProp(m, "dependentValues").items ELSE <<>>
\* value is in the union of the mappings of the selected parents
InUnion(value) ==
    \E a \in 1..Len(SelectedParents) :
        IsMapped(SelectedParents[a]) /\ Has(DependentsOf(SelectedParents[a]), value)
\* value is in the effective allowed set: every value when no parent is
\* selected or none of them has a mapping (fail-open), else the union
EffectivelyAllowed(value) ==
    NoParentSelected \/ NoneMapped \/ InUnion(value)
\* the control rendered with the current props
Rendered == pc \in {"idle", "crashed"}
\* the dependent selection held in the control's state is not empty
HasSelection ==
    IF props.isMultiSelect THEN selectedKeys # <<>> ELSE selectedKey \notin {"", "-1"}

\* C14: for a non-empty parent selection the allowed set used to filter
\* the options is the union of the mappings of the selected parents that
\* have one: if none has a mapping everything is allowed (every option is
\* returned), and if one has a mapping, even an empty one, the parents
\* without a mapping add nothing.
C14_AllowedSetIsUnion ==
    (Rendered /\ ~NoParentSelected)
        => /\ ~view.outcome.threw
           /\ view.hasMappings <=> ~NoneMapped
           /\ NoneMapped => view.outcome = Returned(mappedOptions)
           /\ ~NoneMapped
                  => \A n \in ChoiceNumbers :
                         Has(view.allowedValues, JsNum(n)) <=> InUnion(JsNum(n))

\* C15: with a parent selection that is null, undefined, -1 or an empty
\* array, a commit clears a dependent selection that is not empty and
\* calls onChange exactly once (null in single-select, [] in multi-select
\* mode), and calls nothing when the selection is empty already.
C15_ClearedOnceWithoutParent ==
    /\ [][(pc = "dirty" /\ NoParentSelected)
             => IF HasSelection
                THEN /\ changes' = Append(changes, IF props.isMultiSelect
                                                   THEN JsArr(<<>>) ELSE JsNull)
                     /\ ~HasSelection'
                ELSE changes' = changes]_vars
    /\ [](NoParentSelected => fired <= 1)

C15_Witness ==
    /\ pc = "idle"
    /\ props.parentChoiceValue = JsNum(-1)
    /\ props.isMultiSelect
    /\ props.currentValue = JsArr(<<JsNum(20), JsNum(10)>>)
    /\ selectedKeys = <<>>
    /\ changes = <<JsArr(<<>>)>>

\* C16: when none of the selected parent values has a mapping (also when
\* no configuration is loaded) every dependent value counts as allowed:
\* the dependent selection stays as the host supplied it and onChange is
\* not called, in single-select and in multi-select mode.
C16_FailOpenKeepsSelection ==
    (~NoParentSelected /\ NoneMapped)
        => /\ fired = 0
           /\ pc = "idle"
                  => /\ selectedKey = syncEffect(props, selectedKey, selectedKeys).key
                     /\ selectedKeys = syncEffect(props, selectedKey, selectedKeys).keys

\* C17: in single-select mode with a non-empty parent selection a commit
\* clears the selection and calls onChange(null) when the selection (not
\* empty) is not in the effective allowed set, and calls nothing and
\* leaves the selection to the host when it is.
C17_SingleSelectReconciled ==
    [][(/\ pc = "dirty"
        /\ ~props.isMultiSelect
        /\ ~NoParentSelected
        /\ HasSelection)
          => IF EffectivelyAllowed(Number(selectedKey))
             THEN /\ changes' = changes
                  /\ selectedKey' \in {selectedKey,
                                        syncEffect(props, selectedKey, selectedKeys).key}
             ELSE /\ changes' = Append(changes, JsNull)
                  /\ selectedKey' = ""]_vars

\* C18: in multi-select mode with a non-empty parent selection a commit
\* replaces the selection by the selected values that are in the
\* effective allowed set, in their order, and calls onChange with that
\* list iff a value was removed.
C18_MultiSelectReconciled ==
    [][(/\ pc = "dirty"
        /\ props.isMultiSelect
        /\ ~NoParentSelected
        /\ HasSelection)
          => LET kept == SelectSeq(selectedKeys,
                                   LAMBDA k : EffectivelyAllowed(Number(k)))
             IN  IF kept = selectedKeys
                 THEN /\ changes' = changes
                      /\ selectedKeys' \in {selectedKeys,
                                            syncEffect(props, selectedKey, selectedKeys).keys}
                 ELSE /\ changes' = Append(changes, JsArr(MapNumber(kept)))
                      /\ selectedKeys' = kept]_vars

\* C19: reconciliation is idempotent: after the host changed the parent
\* or the dependent choice at most one onChange is called, also after the
\* host supplies the output again, and once the control has settled its
\* effects call nothing when run again (parent 1 -> 2 with mapping
\* 2 -> [200, 201] and dependent 100: one onChange(null) in total).
C19_ReconciliationIdempotent ==
    /\ fired <= 1
    /\ pc = "idle"
           => /\ clearEffect(props, selectedKey, selectedKeys).calls = <<>>
              /\ autoRemoveEffect(configuration, props, selectedKey, selectedKeys).calls = <<>>

C19_Witness ==
    /\ pc = "idle"
    /\ configJson = Text(MappingsText(Pair(1, <<100>>) \o <<",">> \o Pair(2, <<200, 201>>)))
    /\ props = [isMultiSelect |-> FALSE, parentChoiceValue |-> JsNum(2),
                currentValue |-> JsNull, defaultValue |-> JsUndefined]
    /\ updates = 2
    /\ selectedKey = ""
    /\ changes = <<JsNull>>
    /\ fired = 1

\* the option is among the options shown by the last render
Shown(opt) ==
    /\ ~view.outcome.threw
    /\ \E j \in 1..Len(view.outcome.value) : view.outcome.value[j] = opt
\* the option is the selected value, or one of the selected values
IsSelected(opt) ==
    IF props.isMultiSelect
    THEN \E a \in 1..Len(selectedKeys) : selectedKeys[a] = KeyString(opt.key)
    ELSE selectedKey = KeyString(opt.key)

\* C20: an option is shown iff it is not flagged hidden and its value is
\* in the effective allowed set (every value under fail-open) or it is
\* (one of) the selected value(s); for every parent selection and every
\* loaded configuration.
C20_ShownIffVisibleAndAllowedOrSelected ==
    Rendered
        => \A i \in 1..Len(mappedOptions) :
               Shown(mappedOptions[i])
                   <=> /\ ~mappedOptions[i].hidden
                       /\ \/ EffectivelyAllowed(mappedOptions[i].key)
                          \/ IsSelected(mappedOptions[i])

----------------------------------------------------------------------------
(* Duplicate parentValue registration, checked under Spec.                 *)

\* element j passed the parentValue checks: validateParentValue added its
\* parentValue to the set of values seen
RegistersParent(items, j) ==
    HasNumericParent(items[j]) /\ ~RepeatsParent(items, j)
\* validate reported the duplicate-parentValue error for element i
DuplicateReported(i) ==
    /\ ~result.threw
    /\ \E e \in 1..Len(result.value.errors) :
           /\ result.value.errors[e].index = i - 1
           /\ result.value.errors[e].msg
                  = "Duplicate parentValue ${parentValue} found at index ${index}"

\* C30: validate reports a duplicate-parentValue error for element i
\* exactly when an earlier element is an object with the same numeric
\* parentValue that passed the parentValue checks, whatever that element's
\* dependentValues are; an element rejected as a duplicate registers
\* nothing.
C30_DuplicateIffRegisteredEarlier ==
    ValidatedMappingsArray
        => \A i \in 1..Len(InputMappings) :
               DuplicateReported(i)
                   <=> /\ HasNumericParent(InputMappings[i])
                       /\ \E j \in 1..(i - 1) :
                              /\ RegistersParent(InputMappings, j)
                              /\ GetProp(InputMappings[j], "parentValue")
                                     = GetProp(InputMappings[i], "parentValue")

----------------------------------------------------------------------------
(* Lookup with several mappings for one parent, checked under SpecResolver. *)

\* the positions of the loaded mappings whose parentValue is parentValue
MappingsFor(parentValue) ==
    {i \in 1..Len(LoadedMappings) :
        GetProp(LoadedMappings[i], "parentValue") = parentValue}
\* the looked-up parent value has several mappings in the loaded
\* configuration
LookedUpRepeatedParent ==
    /\ pc = "lookedUp"
    /\ lookup.parentValue \notin {JsNull, JsNum(-1)}
    /\ Cardinality(MappingsFor(lookup.parentValue)) >= 2

\* C27: when the loaded configuration has several mappings with the same
\* parentValue, getDependentValues returns the dependentValues of the
\* first of them in array order; later mappings for that parent are
\* neither consulted nor merged.
C27_FirstMatchWins ==
    LookedUpRepeatedParent
        => lookup.outcome =
               Returned(GetProp(
                   LoadedMappings[CHOOSE i \in MappingsFor(lookup.parentValue) :
                                     \A h \in MappingsFor(lookup.parentValue) : i <= h],
                   "dependentValues"))

----------------------------------------------------------------------------
(* The strict and the permissive parse of one text, checked under          *)
(* SpecResolver: configJson is the text the resolver loaded.               *)

\* validate accepts the loaded text
Accepted ==
    /\ ~validate(configJson).threw
    /\ validate(configJson).value.isValid
\* the mappings of the configuration validate returns for the loaded text
ValidatedMappings ==
    GetProp(validate(configJson).value.configuration, "mappings").items
\* the lookup of parentValue in the validated mappings: null ("no
\* restriction") for null, -1 and a value without a mapping, else the
\* dependentValues of its mapping
ValidatedLookup(parentValue) ==
    IF \/ parentValue \in {JsNull, JsNum(-1)}
       \/ \A i \in 1..Len(ValidatedMappings) :
              GetProp(ValidatedMappings[i], "parentValue") # parentValue
    THEN JsNull
    ELSE GetProp(ValidatedMappings[CHOOSE i \in 1..Len(ValidatedMappings) :
                     GetProp(ValidatedMappings[i], "parentValue") = parentValue],
                 "dependentValues")

\* C25: for every text validate accepts (null, empty and white-space text
\* included), the resolver initialized with the same text answers
\* getDependentValues(p) as the lookup of p in the validated configuration
\* does.
C25_StrictAndPermissiveAgree ==
    (pc = "lookedUp" /\ Accepted)
        => lookup.outcome = Returned(ValidatedLookup(lookup.parentValue))

C25_Witness ==
    /\ pc = "lookedUp"
    /\ Accepted
    /\ Len(ValidatedMappings) = 2
    /\ lookup.parentValue = JsNum(2)
    /\ lookup.outcome = Returned(JsArr(<<>>))

----------------------------------------------------------------------------
(* Properties of the application: the control with its host, the           *)
(* configuration check and the user, checked under SpecApp.                *)

\* the options in the dropdown after the last render
Displayed == displayedOptions(props, view.outcome.value)
\* the --Select-- placeholder is one of them
PlaceholderDisplayed == \E d \in 1..Len(Displayed) : Displayed[d].key = JsNum(-1)
\* the host supplies a default value for the dependent choice
DefaultSupplied == props.defaultValue \notin {JsUndefined, JsNull}

\* C21: the placeholder option -1 is in the displayed list iff the control
\* is in single-select mode and the host supplies no default value; never
\* in multi-select mode and never with a default value, whatever integer
\* it is.
C21_PlaceholderIffSingleWithoutDefault ==
    (pc = "idle")
        => (PlaceholderDisplayed <=> (~props.isMultiSelect /\ ~DefaultSupplied))

\* validate reports errors for the current configuration text
ValidationFails ==
    /\ ~validationResults[configJson].threw
    /\ ~validationResults[configJson].value.isValid

\* C22: whenever validate reports errors for the current configuration
\* text, the error dialog holds exactly those errors, in order, and the
\* control behaves as if no configuration were supplied: no option is
\* filtered out.
C22_InvalidConfigurationIsNotApplied ==
    (pc = "idle" /\ ValidationFails)
        => /\ configErrors = validationResults[configJson].value.errors
           /\ view.outcome = Returned(mappedOptions)

\* C23: reconciliation removes a value from the dependent selection only
\* after a change of the parent selection: in a commit after the initial
\* load, a re-render, a configuration change or a selection by the user,
\* with a parent selection that did not change, the effects call no
\* onChange (every removal calls it).
C23_ReconcileOnlyOnParentChange ==
    [][(pc = "dirty" /\ event # "parent" /\ ~NoParentSelected)
          => changes' = changes]_vars

\* the values of the dependent selection held in the control's state (the
\* keys "" and "-1" are the empty single selection)
HeldValues ==
    IF props.isMultiSelect THEN MapNumber(selectedKeys)
    ELSE IF selectedKey \in {"", "-1"} THEN <<>>
    ELSE <<Number(selectedKey)>>
\* the values of a selection passed to onChange (null and -1 are the empty
\* selection)
ValuesOf(selection) ==
    IF IsArray(selection) THEN selection.items
    ELSE IF selection \in {JsNull, JsNum(-1)} THEN <<>>
    ELSE <<selection>>
\* onChange was called since the last change of the parent selection or
\* of the dependent value by the host
Propagated == changes # <<>> /\ (fired > 0 \/ event = "select")

C26_OfferedOptionStaysSelected ==
    [][(pc = "dirty" /\ event = "select")
          => /\ selectedKey' = selectedKey
             /\ selectedKeys' = selectedKeys
             /\ changes' = changes]_vars

\* the value the control reported last holds the sentinel -1
ReportedSentinel ==
    LET last == changes[Len(changes)]
    IN  \/ last = JsNum(-1)
        \/ (last.k = "array" /\ \E i \in 1..Len(last.items) : last.items[i] = JsNum(-1))

\* the dependent value getOutputs returns in the current state
OutputValue == getOutputs(props.isMultiSelect, selectedValue)

\* C28: once the control has called onChange, getOutputs returns neither -1
\* nor an array containing -1; a reported -1, or array containing -1, is
\* stored as null; the output is an array exactly in multi-select mode; and
\* every onChange call has triggered exactly one notifyOutputChanged.
C28_OutputNeverHoldsSentinel ==
    changes # <<>> =>
        /\ OutputValue # JsNum(-1)
        /\ OutputValue.k = "array"
              => \A i \in 1..Len(OutputValue.items) : OutputValue.items[i] # JsNum(-1)
        /\ (OutputValue.k = "array") <=> props.isMultiSelect
        /\ ReportedSentinel => selectedValue = JsNull
        /\ notified = Len(changes)

\* the user has selected the placeholder of a single-select control
C28_Witness ==
    /\ pc = "idle"
    /\ event = "select"
    /\ ~props.isMultiSelect
    /\ changes # <<>>
    /\ changes[Len(changes)] = JsNum(-1)
    /\ selectedValue = JsNull
    /\ notified = Len(changes)

----------------------------------------------------------------------------
(* MetadataService: retrieval of option set metadata with a cache. *)

\* MetadataService.CACHE_DURATION_MS
CACHE_DURATION_MS == 300000

\* the clock is read at whole periods of CACHE_DURATION_MS, plus a few ms
MaxPeriods == 2
MaxSkew == 2
\* at most this many requests await the WebAPI at once
MaxPending == 2

\* the values of Date.now() in the model
Times ==
    {p * CACHE_DURATION_MS + j : p \in 0..MaxPeriods, j \in 0..MaxSkew}

\* the (entity, attribute) pairs asked for; names are sequences of characters
Requests ==
    {[entity |-> <<"a", "_", "b">>, attribute |-> <<"c">>],
     [entity |-> <<"a">>, attribute |-> <<"b", "_", "c">>],
     [entity |-> <<"a">>, attribute |-> <<"c">>]}

\* `optionset_${entityLogicalName}_${attributeLogicalName}`
optionSetKey(r) == <<"optionset", "_">> \o r.entity \o <<"_">> \o r.attribute

CacheKeys == {optionSetKey(r) : r \in Requests}

\* Map.delete and Map.set
MapDelete(m, key) == [k \in (DOMAIN m) \ {key} |-> m[k]]
MapSet(m, key, value) ==
    [k \in (DOMAIN m) \cup {key} |-> IF k = key THEN value ELSE m[k]]

\* what each path of getFromCache returns, and the maps it leaves
CacheMiss(c, x, key) ==
    [value |-> JsNull, cache |-> MapDelete(c, key), cacheExpiry |-> MapDelete(x, key)]
CacheHit(c, x, key) ==
    [value |-> IF key \in DOMAIN c THEN c[key] ELSE JsNull,
     cache |-> c, cacheExpiry |-> x]

\* getFromCache with >= for >: an entry expires one ms early
getFromCache_Early(c, x, key, t) ==
    IF key \notin DOMAIN x \/ x[key] = 0 \/ t >= x[key]
    THEN CacheMiss(c, x, key)
    ELSE CacheHit(c, x, key)

\* MetadataService.getFromCache(key) at time t
getFromCache(c, x, key, t) ==
    IF key \notin DOMAIN x \/ x[key] = 0 \/ t > x[key]
    THEN CacheMiss(c, x, key)
    ELSE CacheHit(c, x, key)

\* MetadataService.setCache(key, value) at time t
setCache(c, x, key, value, t) ==
    [cache |-> MapSet(c, key, value),
     cacheExpiry |-> MapSet(x, key, t + CACHE_DURATION_MS)]

\* the ways a retrieval fails: no entity, no attribute, no option set, or
\* the promise of retrieveMultipleRecords is rejected
Failures == {"noEntity", "noAttribute", "noOptionSet", "rejected"}

\* getOptionSetMetadata(entity, attribute) up to its await: answer from the
\* cache, or call the WebAPI
GetOptionSetMetadata(r) ==
    LET key == optionSetKey(r)
        got == getFromCache(cache, cacheExpiry, key, now)
    IN  /\ cache' = got.cache
        /\ cacheExpiry' = got.cacheExpiry
        /\ IF got.value # JsNull
           THEN /\ outcome' = [from |-> "cache", key |-> key, value |-> got.value]
                /\ pending' = pending
           ELSE /\ r \notin pending
                /\ Cardinality(pending) < MaxPending
                /\ outcome' = [from |-> "pending", key |-> key]
                /\ pending' = pending \cup {r}
        /\ UNCHANGED <<configJson, pc, validatorVars, resolverVars, controlVars,
                       now, succeededAt>>

\* the WebAPI answers with the option set: getOptionSetMetadata stores and
\* returns it
RetrievalSucceeds(r) ==
    /\ r \in pending
    /\ LET set == setCache(cache, cacheExpiry, optionSetKey(r), r, now)
       IN  /\ cache' = set.cache
           /\ cacheExpiry' = set.cacheExpiry
    /\ succeededAt' = MapSet(succeededAt, optionSetKey(r), now)
    /\ pending' = pending \ {r}
    /\ outcome' = [from |-> "webAPI", key |-> optionSetKey(r), value |-> r]
    /\ UNCHANGED <<configJson, pc, validatorVars, resolverVars, controlVars, now>>

\* the retrieval fails: getOptionSetMetadata logs the error and rethrows it
RetrievalFails(r) ==
    /\ r \in pending
    /\ \E failure \in Failures :
           outcome' = [from |-> "error", key |-> optionSetKey(r), error |-> failure]
    /\ pending' = pending \ {r}
    /\ UNCHANGED <<configJson, pc, validatorVars, resolverVars, controlVars,
                   cache, cacheExpiry, now, succeededAt>>

\* MetadataService.clearCache()
ClearCache ==
    /\ cache' = <<>>
    /\ cacheExpiry' = <<>>
    /\ succeededAt' = <<>>
    /\ UNCHANGED <<configJson, pc, validatorVars, resolverVars, controlVars,
                   now, pending, outcome>>

\* MetadataService.clearCacheKey(key)
ClearCacheKey(key) ==
    /\ cache' = MapDelete(cache, key)
    /\ cacheExpiry' = MapDelete(cacheExpiry, key)
    /\ succeededAt' = MapDelete(succeededAt, key)
    /\ UNCHANGED <<configJson, pc, validatorVars, resolverVars, controlVars,
                   now, pending, outcome>>

\* time passes
Tick ==
    /\ \E t \in Times : t > now /\ now' = t
    /\ UNCHANGED <<configJson, pc, validatorVars, resolverVars, controlVars,
                   cache, cacheExpiry, pending, outcome, succeededAt>>

InitMetadata ==
    /\ configJson = JsNull
    /\ InitRest

NextMetadata ==
    \/ \E r \in Requests : GetOptionSetMetadata(r)
    \/ \E r \in Requests : RetrievalSucceeds(r)
    \/ \E r \in Requests : RetrievalFails(r)
    \/ ClearCache
    \/ \E key \in CacheKeys : ClearCacheKey(key)
    \/ Tick

SpecMetadata == InitMetadata /\ [][NextMetadata]_vars

\* a retrieval for the key succeeded at most 300000 ms ago and the key was
\* not cleared since
RecentlyRetrieved(key) ==
    /\ key \in DOMAIN succeededAt
    /\ now - succeededAt[key] <= 300000

\* the entry of the key has expired
Expired(key) == key \in DOMAIN cacheExpiry /\ now > cacheExpiry[key]

\* C29: a request is served from the cache, without a call of the WebAPI,
\* exactly when a retrieval for its cache key succeeded at most 300000 ms
\* before and the key was not cleared since; a request that finds an expired
\* entry removes it from both maps; a failed retrieval stores nothing.
C29_ServedFromCacheWhileFresh ==
    [][/\ \A r \in Requests :
              GetOptionSetMetadata(r) =>
                  /\ (outcome'.from = "cache") <=> RecentlyRetrieved(optionSetKey(r))
                  /\ Expired(optionSetKey(r)) =>
                        /\ optionSetKey(r) \notin DOMAIN cache'
                        /\ optionSetKey(r) \notin DOMAIN cacheExpiry'
       /\ \A r \in Requests :
              RetrievalFails(r) => (cache' = cache /\ cacheExpiry' = cacheExpiry)
       /\ DOMAIN cache' = DOMAIN cacheExpiry']_vars

\* a request was served from the cache exactly 300000 ms after the retrieval
C29_Witness ==
    /\ outcome.from = "cache"
    /\ outcome.key \in DOMAIN succeededAt
    /\ now = succeededAt[outcome.key] + 300000
    /\ outcome.key \in DOMAIN cache

=============================================================================
